---- MODULE Spec2Model ----
(***************************************************************************)
(* Model of the printer installer's core:                                  *)
(*   - RemoteExecutor (src/fullinstaller.py): connect, close, run          *)
(*   - PrinterInstaller.reset_device and its polling loop                  *)
(*   - copy_file / atomic_copy (src/scripts/lib/file_ops.py)               *)
(*   - the --restore-only and --backup-only paths of main()                *)
(*   - the component transfers (backup_* / restore_* of PrinterInstaller)  *)
(*   - CombinedPostProc.py: main() and the Moonraker connectivity probe    *)
(* Each subsystem has its own specification over the shared variables;     *)
(* the variables of the other subsystems stay at their initial values.     *)
(***************************************************************************)
EXTENDS Integers, Sequences, FiniteSets, TLC

(***************************************************************************)
(* Bounds of the model.                                                    *)
(***************************************************************************)
\* chunks the remote side emits during one command
MaxEmit == 2
\* the reset device becomes ready after at most this many probe cycles
MaxK == 2
\* pieces of output the remote side sends when the chunking is arbitrary
MaxPieces == 3
\* file sizes, free space (bytes) and max_retries that copies are called with
MaxSize == 2
MaxFree == 3
MaxRetries == 3
\* files of a timelapse directory or of a recorded backup
MaxFiles == 2
\* the monotonic clock of a monitored transfer: its step and its end (seconds)
ClockStep == 5
MaxClock == 25

(***************************************************************************)
(* Text.  A string is a sequence of one-character strings.                 *)
(***************************************************************************)
NL == "\n"
CR == "\r"

\* str.lower() on the alphabet the model's texts use
Lower(c) ==
  CASE c = "O" -> "o"
    [] c = "K" -> "k"
    [] OTHER -> c

LowerSeq(s) == [i \in 1..Len(s) |-> Lower(s[i])]

\* needle in hay
Contains(hay, needle) ==
  \E i \in 0..(Len(hay) - Len(needle)) :
     SubSeq(hay, i + 1, i + Len(needle)) = needle

HasNL(s) == \E i \in 1..Len(s) : s[i] = NL

FirstNL(s) == CHOOSE i \in 1..Len(s) : s[i] = NL /\ \A j \in 1..(i - 1) : s[j] # NL

\* line.rstrip("\r")
RECURSIVE RStripCR(_)
RStripCR(l) ==
  IF Len(l) > 0 /\ l[Len(l)] = CR THEN RStripCR(SubSeq(l, 1, Len(l) - 1)) ELSE l

\* "\n".join(lines)
RECURSIVE Join(_)
Join(lines) ==
  IF Len(lines) = 0 THEN <<>>
  ELSE IF Len(lines) = 1 THEN lines[1]
  ELSE lines[1] \o <<NL>> \o Join(Tail(lines))

\* texts of the model
T_ok == <<"o", "k">>
T_online == <<"o", "n", "l", "i", "n", "e">>
T_test == <<"t", "e", "s", "t">>
T_OK == <<"O", "K">>

\* what the remote side can send in one piece
OutChunks ==
  { T_ok \o <<NL>>,                 \* a complete acknowledgement line
    <<"O", "K", CR, NL>>,           \* the same in capitals, CRLF-terminated
    T_ok,                           \* acknowledgement without a line end
    <<"x", NL>>,                    \* an unrelated line
    T_online \o <<NL>>,             \* the answer to "echo online"
    T_test \o <<NL>> }              \* the answer to "echo test"

ErrChunks == { <<"e", NL>>, <<"e">> }

\* Optional values: None is the empty set, Some(x) the singleton.
None == {}
Some(x) == {x}
The(o) == CHOOSE x \in o : TRUE

\* exit statuses a channel reports; -1 is paramiko's value for a channel that
\* closed without the server ever sending one
ExitStatuses == {-1, 0, 1}

(***************************************************************************)
(* State.                                                                  *)
(***************************************************************************)
VARIABLES
  client,        \* RemoteExecutor._client: "none" | "active" | "inactive" (transport dead)
  pc,            \* position of run(): idle, connect, open, input, top, rd_out, rd_err, chk, fin, done
  params,        \* the arguments of the current run()
  buffers,       \* buffers[kind]: the partial line of each stream
  collected,     \* collected[kind]: the complete lines of each stream
  recvd,         \* recvd[kind]: the text channel.recv has returned so far
  success_seen,  \* nonlocal success_seen
  result,        \* what run() returned or raised
  chanOut,       \* remote stdout not yet received (a sequence of chunks)
  chanErr,       \* remote stderr not yet received
  chanExit,      \* remote exit status: None or Some(status)
  chanBroken,    \* the transport dropped: the next channel call raises
  emitted,       \* what the remote side has sent so far: [n, ack]
  rphase,        \* reset_device: Idle, Ensure, ResetIssued, Rebooting, Polling, Probe, Online, Failed
  cycles,        \* probe cycles of the polling loop that ended without the break
  readyAfter,    \* the device answers the probe from this cycle on
  fs,            \* the local filesystem a copy works on: [src, dst, tmp, parent, free]
  fs0,           \* the filesystem when the copy was called
  cp,            \* copy_file / atomic_copy: arguments, loop position, outcome
  rs,            \* main() --restore-only: arguments, bundle, position, outcome
  conn,          \* connections the executor left open without holding them
  chanClosed,    \* run() called channel.close()
  chanEof,       \* run() called channel.shutdown_write()
  scall,         \* the latest direct call of connect() or close() and how it ended
  xf,            \* one component transfer: its files, loop position and outcome
  bk,            \* main() --backup-only: arguments, position, outcome
  moonraker_connectivity,  \* CombinedPostProc: the ConnectivityStatus global
  probe,         \* CombinedPostProc: positions of main() and of the probe thread
  mon,           \* a _TransferMonitor, the loop that drives it, the clock, the reports
  wf             \* main() with --reset or --reset-only: arguments, position, events

sessVars == <<client, conn>>
resetVars == <<rphase, cycles, readyAfter>>
copyVars == <<fs, fs0, cp>>
restoreVars == <<rs>>
runVars == <<pc, params, buffers, collected, recvd, success_seen, result>>
chanVars == <<chanOut, chanErr, chanExit, chanBroken, emitted, chanClosed, chanEof>>
callVars == <<scall>>
probeVars == <<moonraker_connectivity, probe>>
bundleVars == <<xf, bk>>
flowVars == <<mon, wf>>
vars == <<client, pc, params, buffers, collected, recvd, success_seen, result,
          chanOut, chanErr, chanExit, chanBroken, emitted,
          rphase, cycles, readyAfter, fs, fs0, cp, rs, conn,
          chanClosed, chanEof, scall, xf, bk, moonraker_connectivity, probe,
          mon, wf>>

Kinds == {"stdout", "stderr"}

\* the temporary siblings "<dst>.tmp.<attempt>" a copy can use
TmpNames == 0..(MaxRetries - 1)

NoFs == [src |-> None, dst |-> None, tmp |-> [a \in TmpNames |-> None],
         parent |-> FALSE, free |-> 0]

Components == {"moonraker", "timelapses", "gcodes"}

NoRestore ==
  [pc |-> "idle",
   args |-> [c \in Components |-> FALSE],
   bundle |-> [dir |-> FALSE, mdb |-> FALSE, sql |-> FALSE,
               timelapse |-> FALSE, gcodes |-> FALSE],
   restored |-> {}, skipped |-> {}, fault |-> FALSE, exit |-> None]

NoCopy ==
  [fn |-> "none", pc |-> "idle", mode |-> FALSE, max_retries |-> 0, attempt |-> 0,
   tries |-> 0, allRaised |-> TRUE, last_error |-> "", sleeps |-> <<>>,
   statvfs |-> FALSE,
   alog |-> <<>>, res |-> [kind |-> "none", exc |-> "", cause |-> ""]]

\* stale: a client that was held was replaced while its transport was live;
\* dangling: the client of a failed attempt was dropped with its transport
\* established and never closed
NoConn == [stale |-> FALSE, dangling |-> FALSE]

NoCall == [op |-> "none", force |-> FALSE, before |-> "none", raised |-> FALSE,
           exc |-> "", cause |-> "", opened |-> FALSE, closed |-> FALSE]

NoXferResult == [kind |-> "none", exc |-> "", names |-> <<>>, warned |-> 0]

NoXfer ==
  [fn |-> "none", pc |-> "idle", n |-> 0, remote |-> {}, infos |-> {}, attempted |-> {},
   succeeded |-> 0, failed |-> <<>>, fatal |-> FALSE, svc |-> "up",
   wrote |-> <<>>, res |-> NoXferResult]

\* ConnectivityStatus(): the defaults of the dataclass
ConnectivityStatus == [checked |-> TRUE, connected |-> TRUE, message |-> ""]

NoProbe ==
  [enabled |-> FALSE, fg |-> "idle", bg |-> "none", found |-> FALSE, message |-> "",
   gave_up |-> FALSE, acted |-> None]

\* the fields of a _TransferMonitor
NoMonitorObj ==
  [total_files |-> 0, total_bytes |-> 0, completed_files |-> 0,
   completed_bytes |-> 0, current_file_size |-> 0, current_transferred |-> 0,
   last_emit |-> 0, last_percent |-> -1, last_overall |-> 0,
   active |-> FALSE, emitted_complete |-> FALSE]

\* files: the planned sizes; idx: files the loop is done with; now: the
\* monotonic clock; percent: the percentage computed last; reports: the
\* progress lines logged, [percent, at]
NoMonitor ==
  [pc |-> "idle", files |-> <<>>, idx |-> 0, now |-> 0, obj |-> NoMonitorObj,
   percent |-> None, reports |-> <<>>]

\* pc: the position <<kind, of>>; log: the events <<kind, of>> of the workflow
\* in the order they happened; lost: the components whose backup did not
\* transfer every file; failing: install() caught an InstallerError and
\* sys.exit(1) is under way
NoFlow ==
  [pc |-> <<"idle", "">>,
   args |-> [reset_only |-> FALSE, restore_backup |-> FALSE,
             preserve |-> [c \in Components |-> FALSE], steps |-> {}],
   log |-> <<>>, lost |-> {}, session |-> "none", failing |-> FALSE, exit |-> None]

NoBackup ==
  [pc |-> "idle", args |-> [c \in Components |-> FALSE],
   components_backed_up |-> {}, partial |-> {}, failed |-> {}, exit |-> None]

NoResult ==
  [kind |-> "none", exc |-> "", how |-> "", exit_status |-> None,
   success_tokens_seen |-> FALSE, stdout |-> <<>>, stderr |-> <<>>, names |-> <<>>]

NoParams ==
  [command |-> "", expect_disconnect |-> FALSE, success_tokens |-> {},
   timeout |-> FALSE, input_data |-> FALSE]

(***************************************************************************)
(* RemoteExecutor: client lifecycle.                                       *)
(***************************************************************************)
\* _transport_is_active()
transport_is_active(c) == c = "active"

\* mutant: close() skips a client whose transport is already dead
close_SkipDead(c) == IF c = "inactive" THEN c ELSE "none"

\* mutant: close() leaves the client in place
close_Keep(c) == c

\* close(): the held client is closed and forgotten
close(c) == "none"

\* close() has no except clause: when a client is held and its close() fails,
\* the finally block forgets the client and the exception goes on to the caller
CloseRaises(c, fails) == c # "none" /\ fails

\* connect(force): the client after the call and whether it raised, for the
\* outcome `oc` of paramiko's client.connect: "ok"; "auth" (the transport is
\* established and the credentials are rejected); "transport" (no transport
\* is established).  overwrote: self._client was assigned while the client
\* it held had a live transport.  unclosed: the SSHClient made for this
\* attempt is given up with its transport established and without close().
\* closed: the client that was held has been closed by self.close().
\* mutant: the test of the healthy connection is skipped
connect_AlwaysReconnect(c, force, oc) ==
  IF oc = "ok"
  THEN [client |-> "active", raised |-> FALSE, opened |-> TRUE, cause |-> "",
        overwrote |-> transport_is_active(close(c)), unclosed |-> FALSE,
        closed |-> c # "none"]
  ELSE [client |-> close(c), raised |-> TRUE, opened |-> FALSE, cause |-> oc,
        overwrote |-> FALSE, unclosed |-> oc = "auth", closed |-> c # "none"]

connect(c, force, oc) ==
  IF ~force /\ transport_is_active(c)
  THEN [client |-> c, raised |-> FALSE, opened |-> FALSE, cause |-> "",
        overwrote |-> FALSE, unclosed |-> FALSE, closed |-> FALSE]
  ELSE IF oc = "ok"
  THEN [client |-> "active", raised |-> FALSE, opened |-> TRUE, cause |-> "",
        overwrote |-> transport_is_active(close(c)), unclosed |-> FALSE,
        closed |-> c # "none"]
  ELSE [client |-> close(c), raised |-> TRUE, opened |-> FALSE, cause |-> oc,
        overwrote |-> FALSE, unclosed |-> oc = "auth", closed |-> c # "none"]

\* the connections left open after a connect() that ended as r
Leaks(k, r) ==
  [stale |-> k.stale \/ r.overwrote, dangling |-> k.dangling \/ r.unclosed]

ConnectOutcomes == {"ok", "auth", "transport"}

(***************************************************************************)
(* The device.  During the polling loop of reset_device the device is      *)
(* ready from probe cycle readyAfter on: its port is open, it accepts the  *)
(* credentials and answers "echo online" with the marker and exit 0.       *)
(* Before that, and outside the polling loop, it may do anything except    *)
(* answer the probe.                                                       *)
(***************************************************************************)
Probing == rphase \in {"Polling", "Probe"}
DevReady == Probing /\ cycles >= readyAfter

\* the remote side may misbehave (time out, drop, refuse) in this state
MayFault == ~DevReady

\* the outcomes client.connect may have in this state
MayConnect(oc) == oc = "ok" \/ MayFault

(***************************************************************************)
(* RemoteExecutor.run: line processing.                                    *)
(***************************************************************************)
\* mutant: the line is compared as received, without lower()
TokenMatch_CaseSensitive(tokens, clean_line) ==
  tokens # {} /\ \E token \in tokens : Contains(clean_line, token)

\* the token test of _process_stream: the line is lowered, the token is not
TokenMatch(tokens, clean_line) ==
  tokens # {} /\ \E token \in tokens : Contains(LowerSeq(clean_line), token)

\* _process_stream(kind, chunk) on one stream: st = [buf, lines, seen]
RECURSIVE SplitLines(_, _)
SplitLines(st, tokens) ==
  IF HasNL(st.buf)
  THEN LET i == FirstNL(st.buf)
           line == SubSeq(st.buf, 1, i - 1)
           rest == SubSeq(st.buf, i + 1, Len(st.buf))
           clean_line == RStripCR(line)
       IN SplitLines([buf |-> rest,
                      lines |-> Append(st.lines, clean_line),
                      seen |-> st.seen \/ TokenMatch(tokens, clean_line)],
                     tokens)
  ELSE st

\* mutant: the chunk replaces the buffered text instead of extending it
process_stream_DropBuffer(buf, lines, seen, tokens, chunk) ==
  SplitLines([buf |-> chunk, lines |-> lines, seen |-> seen], tokens)

process_stream(buf, lines, seen, tokens, chunk) ==
  SplitLines([buf |-> buf \o chunk, lines |-> lines, seen |-> seen], tokens)

\* mutant: the text after the last newline is dropped when the loop ends
FlushPartial_Drop(buf, lines, seen, tokens) ==
  [buf |-> <<>>, lines |-> lines, seen |-> seen]

\* after the loop: if buffers[kind]: _process_stream(kind, "\n")
FlushPartial(buf, lines, seen, tokens) ==
  IF buf # <<>>
  THEN process_stream(buf, lines, seen, tokens, <<NL>>)
  ELSE [buf |-> <<>>, lines |-> lines, seen |-> seen]

(***************************************************************************)
(* RemoteExecutor.run: how a call ends.                                    *)
(***************************************************************************)
Returned(how, status, seen, out, err) ==
  [kind |-> "returned", exc |-> "", how |-> how, exit_status |-> status,
   success_tokens_seen |-> seen, stdout |-> Join(out), stderr |-> Join(err),
   names |-> <<>>]

\* names: what the message of the exception names
Raised(exc, how, status, seen, out, err) ==
  [kind |-> "raised", exc |-> exc, how |-> how, exit_status |-> status,
   success_tokens_seen |-> seen, stdout |-> Join(out), stderr |-> Join(err),
   names |-> <<>>]

\* mutant: a dropped transport counts as success only with a token seen
TransportErrorOutcome_NeedsToken(expect_disconnect, seen, out, err) ==
  IF expect_disconnect /\ seen
  THEN Returned("transport_error", None, seen, out, err)
  ELSE Raised("CommandExecutionError", "transport_error", None, seen, out, err)

\* the except (paramiko.SSHException, OSError) branch of the read loop
TransportErrorOutcome(expect_disconnect, seen, out, err) ==
  IF expect_disconnect
  THEN Returned("transport_error", None, seen, out, err)
  ELSE Raised("CommandExecutionError", "transport_error", None, seen, out, err)

\* mutant: only a positive exit status fails (exit_status > 0)
CompletionOutcome_PositiveOnly(expect_disconnect, exit_status, seen, out, err) ==
  IF expect_disconnect
  THEN IF exit_status \in {Some(0), None} \/ seen
       THEN Returned("completed", None, seen, out, err)
       ELSE Raised("CommandExecutionError", "completed", exit_status, seen, out, err)
  ELSE IF exit_status = Some(1)
       THEN Raised("CommandExecutionError", "completed", exit_status, seen, out, err)
       ELSE Returned("completed", exit_status, seen, out, err)

\* mutant: a timeout of a call that expects the disconnect counts as the
\* disconnect
TimeoutOutcome_AsDisconnect(command, timeout, expect_disconnect, seen, out, err) ==
  IF expect_disconnect
  THEN Returned("timeout", None, seen, out, err)
  ELSE [Raised("CommandExecutionError", "timeout", None, seen, out, err)
          EXCEPT !.names = <<command, timeout>>]

\* the timeout test of the read loop: channel.close() and raise
\* "Remote command timed out after {timeout} seconds: {command}"
TimeoutOutcome(command, timeout, expect_disconnect, seen, out, err) ==
  [Raised("CommandExecutionError", "timeout", None, seen, out, err)
     EXCEPT !.names = <<command, timeout>>]

\* mutant: a call that expects the disconnect reports the exit status it got
CompletionOutcome_KeepsStatus(expect_disconnect, exit_status, seen, out, err) ==
  IF expect_disconnect
  THEN IF exit_status \in {Some(0), None} \/ seen
       THEN Returned("completed", exit_status, seen, out, err)
       ELSE Raised("CommandExecutionError", "completed", exit_status, seen, out, err)
  ELSE IF exit_status # Some(0)
       THEN Raised("CommandExecutionError", "completed", exit_status, seen, out, err)
       ELSE Returned("completed", exit_status, seen, out, err)

\* mutant: the test of CommandResult.ok, a missing exit status passes
CompletionOutcome_NoneIsOk(expect_disconnect, exit_status, seen, out, err) ==
  IF expect_disconnect
  THEN IF exit_status \in {Some(0), None} \/ seen
       THEN Returned("completed", None, seen, out, err)
       ELSE Raised("CommandExecutionError", "completed", exit_status, seen, out, err)
  ELSE IF exit_status \notin {Some(0), None}
       THEN Raised("CommandExecutionError", "completed", exit_status, seen, out, err)
       ELSE Returned("completed", exit_status, seen, out, err)

\* after the loop ended normally: exit_status is None or Some(status)
CompletionOutcome(expect_disconnect, exit_status, seen, out, err) ==
  IF expect_disconnect
  THEN IF exit_status \in {Some(0), None} \/ seen
       THEN Returned("completed", None, seen, out, err)
       ELSE Raised("CommandExecutionError", "completed", exit_status, seen, out, err)
  ELSE IF exit_status # Some(0)
       THEN Raised("CommandExecutionError", "completed", exit_status, seen, out, err)
       ELSE Returned("completed", exit_status, seen, out, err)

(***************************************************************************)
(* RemoteExecutor.run: the steps.                                          *)
(***************************************************************************)
ResetRunLocals ==
  /\ buffers' = [k \in Kinds |-> <<>>]
  /\ collected' = [k \in Kinds |-> <<>>]
  /\ recvd' = [k \in Kinds |-> <<>>]
  /\ success_seen' = FALSE
  /\ result' = NoResult
  /\ chanOut' = <<>>
  /\ chanErr' = <<>>
  /\ chanExit' = None
  /\ chanBroken' = FALSE
  /\ chanClosed' = FALSE
  /\ chanEof' = FALSE
  /\ emitted' = [n |-> 0, ack |-> FALSE]

\* a caller enters run(p)
Call(p) ==
  /\ pc \in {"idle", "done"}
  /\ pc' = "connect"
  /\ params' = p
  /\ ResetRunLocals

\* self.connect()
RunConnect ==
  /\ UNCHANGED resetVars
  /\ UNCHANGED copyVars
  /\ UNCHANGED restoreVars
  /\ UNCHANGED <<callVars, bundleVars, probeVars, flowVars>>
  /\ pc = "connect"
  /\ \E oc \in ConnectOutcomes :
       LET r == connect(client, FALSE, oc) IN
       /\ MayConnect(oc)
       /\ client' = r.client
       /\ conn' = Leaks(conn, r)
       /\ IF r.raised
          THEN /\ pc' = "done"
               /\ result' = Raised("SSHConnectionError", "connect_failed", None,
                                   FALSE, <<>>, <<>>)
          ELSE /\ pc' = "open"
               /\ UNCHANGED result
  /\ UNCHANGED <<params, buffers, collected, recvd, success_seen>>
  /\ UNCHANGED chanVars

\* transport.open_session(); channel.exec_command(full_command)
RunOpenChannel ==
  /\ UNCHANGED resetVars
  /\ UNCHANGED copyVars
  /\ UNCHANGED restoreVars
  /\ UNCHANGED <<callVars, bundleVars, probeVars, flowVars>>
  /\ UNCHANGED conn
  /\ pc = "open"
  /\ \/ /\ ~transport_is_active(client)
        /\ pc' = "done"
        /\ result' = Raised("SSHConnectionError", "transport_unavailable", None,
                            FALSE, <<>>, <<>>)
        /\ UNCHANGED client
     \/ /\ transport_is_active(client)
        /\ \E opened \in BOOLEAN :
             /\ opened \/ MayFault
             /\ IF opened
                THEN /\ pc' = IF params.input_data THEN "input" ELSE "top"
                     /\ UNCHANGED <<client, result>>
                ELSE /\ pc' = "done"
                     /\ client' = close(client)
                     /\ result' = Raised("SSHConnectionError", "channel_open_failed",
                                         None, FALSE, <<>>, <<>>)
  /\ UNCHANGED <<params, buffers, collected, recvd, success_seen>>
  /\ UNCHANGED chanVars

\* mutant: a failed write counts as the expected disconnect
InputFailureOutcome_AsDisconnect(expect_disconnect) ==
  IF expect_disconnect
  THEN Returned("input_failed", None, FALSE, <<>>, <<>>)
  ELSE Raised("CommandExecutionError", "input_failed", None, FALSE, <<>>, <<>>)

\* the except branch of the input block: whatever expect_disconnect is
InputFailureOutcome(expect_disconnect) ==
  Raised("CommandExecutionError", "input_failed", None, FALSE, <<>>, <<>>)

\* channel.sendall(chunk) for every chunk of input_data; on an exception
\* channel.close(), self.close() and raise; in both cases shutdown_write()
RunInput ==
  /\ UNCHANGED resetVars
  /\ UNCHANGED copyVars
  /\ UNCHANGED restoreVars
  /\ UNCHANGED <<callVars, bundleVars, probeVars, flowVars>>
  /\ UNCHANGED conn
  /\ pc = "input"
  /\ \E sent \in BOOLEAN :
       IF sent
       THEN /\ pc' = "top"
            /\ UNCHANGED <<client, result, chanClosed>>
       ELSE /\ pc' = "done"
            /\ client' = close(client)
            /\ chanClosed' = TRUE
            /\ result' = InputFailureOutcome(params.expect_disconnect)
  /\ chanEof' = TRUE
  /\ UNCHANGED <<params, buffers, collected, recvd, success_seen>>
  /\ UNCHANGED <<chanOut, chanErr, chanExit, chanBroken, emitted>>

\* mutant: the timeout closes the session as a transport error does
RunTop_CloseOnTimeout ==
  /\ UNCHANGED resetVars
  /\ UNCHANGED copyVars
  /\ UNCHANGED restoreVars
  /\ UNCHANGED <<callVars, bundleVars, probeVars, flowVars>>
  /\ UNCHANGED conn
  /\ pc = "top"
  /\ \/ /\ params.timeout
        /\ MayFault
        /\ pc' = "done"
        /\ chanClosed' = TRUE
        /\ client' = close(client)
        /\ UNCHANGED chanEof
        /\ result' = TimeoutOutcome(params.command, params.timeout,
                                    params.expect_disconnect, success_seen,
                                    collected["stdout"], collected["stderr"])
     \/ /\ pc' = "rd_out"
        /\ UNCHANGED <<client, result, chanClosed, chanEof>>
  /\ UNCHANGED <<params, buffers, collected, recvd, success_seen>>
  /\ UNCHANGED <<chanOut, chanErr, chanExit, chanBroken, emitted>>

\* top of the read loop: the timeout test
RunTop ==
  /\ UNCHANGED resetVars
  /\ UNCHANGED copyVars
  /\ UNCHANGED restoreVars
  /\ UNCHANGED <<callVars, bundleVars, probeVars, flowVars>>
  /\ UNCHANGED conn
  /\ pc = "top"
  /\ \/ /\ params.timeout
        /\ MayFault
        /\ pc' = "done"
        /\ chanClosed' = TRUE
        /\ UNCHANGED chanEof
        /\ result' = TimeoutOutcome(params.command, params.timeout,
                                    params.expect_disconnect, success_seen,
                                    collected["stdout"], collected["stderr"])
     \/ /\ pc' = "rd_out"
        /\ UNCHANGED <<result, chanClosed, chanEof>>
  /\ UNCHANGED <<client, params, buffers, collected, recvd, success_seen>>
  /\ UNCHANGED <<chanOut, chanErr, chanExit, chanBroken, emitted>>

\* the except branch: channel.close(); self.close(); return or raise
RunTransportError ==
  /\ pc' = "done"
  /\ client' = close(client)
  /\ chanClosed' = TRUE
  /\ UNCHANGED chanEof
  /\ result' = TransportErrorOutcome(params.expect_disconnect, success_seen,
                                     collected["stdout"], collected["stderr"])
  /\ UNCHANGED <<params, buffers, collected, recvd, success_seen>>
  /\ UNCHANGED <<chanOut, chanErr, chanExit, chanBroken, emitted>>

\* if channel.recv_ready(): _process_stream("stdout", channel.recv(4096))
RunRecvOut ==
  /\ UNCHANGED resetVars
  /\ UNCHANGED copyVars
  /\ UNCHANGED restoreVars
  /\ UNCHANGED <<callVars, bundleVars, probeVars, flowVars>>
  /\ UNCHANGED conn
  /\ pc = "rd_out"
  /\ IF chanBroken
     THEN RunTransportError
     ELSE /\ pc' = "rd_err"
          /\ IF chanOut # <<>>
             THEN LET st == process_stream(buffers["stdout"], collected["stdout"],
                                           success_seen, params.success_tokens,
                                           Head(chanOut))
                  IN /\ buffers' = [buffers EXCEPT !["stdout"] = st.buf]
                     /\ collected' = [collected EXCEPT !["stdout"] = st.lines]
                     /\ recvd' = [recvd EXCEPT !["stdout"] = @ \o Head(chanOut)]
                     /\ success_seen' = st.seen
                     /\ chanOut' = Tail(chanOut)
             ELSE UNCHANGED <<buffers, collected, recvd, success_seen, chanOut>>
          /\ UNCHANGED <<client, params, result, chanErr, chanExit, chanBroken, emitted,
                         chanClosed, chanEof>>

\* if channel.recv_stderr_ready(): _process_stream("stderr", channel.recv_stderr(4096))
RunRecvErr ==
  /\ UNCHANGED resetVars
  /\ UNCHANGED copyVars
  /\ UNCHANGED restoreVars
  /\ UNCHANGED <<callVars, bundleVars, probeVars, flowVars>>
  /\ UNCHANGED conn
  /\ pc = "rd_err"
  /\ IF chanBroken
     THEN RunTransportError
     ELSE /\ pc' = "chk"
          /\ IF chanErr # <<>>
             THEN LET st == process_stream(buffers["stderr"], collected["stderr"],
                                           success_seen, params.success_tokens,
                                           Head(chanErr))
                  IN /\ buffers' = [buffers EXCEPT !["stderr"] = st.buf]
                     /\ collected' = [collected EXCEPT !["stderr"] = st.lines]
                     /\ recvd' = [recvd EXCEPT !["stderr"] = @ \o Head(chanErr)]
                     /\ success_seen' = st.seen
                     /\ chanErr' = Tail(chanErr)
             ELSE UNCHANGED <<buffers, collected, recvd, success_seen, chanErr>>
          /\ UNCHANGED <<client, params, result, chanOut, chanExit, chanBroken, emitted,
                         chanClosed, chanEof>>

\* exit_status_ready() and not recv_ready() and not recv_stderr_ready(): break,
\* otherwise sleep and go round again
RunCheckExit ==
  /\ UNCHANGED resetVars
  /\ UNCHANGED copyVars
  /\ UNCHANGED restoreVars
  /\ UNCHANGED <<callVars, bundleVars, probeVars, flowVars>>
  /\ UNCHANGED conn
  /\ pc = "chk"
  /\ IF chanBroken
     THEN RunTransportError
     ELSE /\ pc' = IF chanExit # None /\ chanOut = <<>> /\ chanErr = <<>>
                   THEN "fin" ELSE "top"
          /\ UNCHANGED <<client, params, buffers, collected, recvd, success_seen, result>>
          /\ UNCHANGED chanVars

\* after the loop: flush the partial lines, read the exit status, decide.
\* A transport that dropped meanwhile makes recv_exit_status raise: an
\* SSHException leaves exit_status None, an OSError reaches the except branch.
RunFinish ==
  /\ UNCHANGED resetVars
  /\ UNCHANGED copyVars
  /\ UNCHANGED restoreVars
  /\ UNCHANGED <<callVars, bundleVars, probeVars, flowVars>>
  /\ UNCHANGED conn
  /\ pc = "fin"
  /\ LET so == FlushPartial(buffers["stdout"], collected["stdout"], success_seen,
                            params.success_tokens)
         se == FlushPartial(buffers["stderr"], collected["stderr"], so.seen,
                            params.success_tokens)
     IN /\ buffers' = [k \in Kinds |-> IF k = "stdout" THEN so.buf ELSE se.buf]
        /\ collected' = [k \in Kinds |-> IF k = "stdout" THEN so.lines ELSE se.lines]
        /\ UNCHANGED recvd
        /\ success_seen' = se.seen
        /\ pc' = "done"
        /\ \/ /\ ~chanBroken
              /\ result' = CompletionOutcome(params.expect_disconnect, chanExit,
                                             se.seen, so.lines, se.lines)
              /\ UNCHANGED <<client, chanClosed, chanEof>>
           \/ /\ chanBroken
              /\ result' = CompletionOutcome(params.expect_disconnect, None,
                                             se.seen, so.lines, se.lines)
              /\ UNCHANGED <<client, chanClosed, chanEof>>
           \/ /\ chanBroken
              /\ result' = TransportErrorOutcome(params.expect_disconnect, se.seen,
                                                 so.lines, se.lines)
              /\ client' = close(client)
              /\ chanClosed' = TRUE
              /\ UNCHANGED chanEof
  /\ UNCHANGED <<params, chanOut, chanErr, chanExit, chanBroken, emitted>>

InLoop == pc \in {"top", "rd_out", "rd_err", "chk", "fin"}

(***************************************************************************)
(* The remote side.                                                        *)
(***************************************************************************)
\* chunks that carry the acknowledgement within one line
AckChunks == {c \in OutChunks : Contains(LowerSeq(c), T_ok)}

\* the chunks the remote side may send in the current state
MayEmit(kind, c) ==
  IF DevReady
  THEN kind = "stdout" /\ c = T_online \o <<NL>> /\ emitted.n = 0
  ELSE Probing => c # T_online \o <<NL>>

\* the exit statuses the remote command may end with in the current state
MayExit(s) == DevReady => (s = 0 /\ emitted.n = 1)

EnvEmit ==
  /\ UNCHANGED resetVars
  /\ UNCHANGED copyVars
  /\ UNCHANGED restoreVars
  /\ UNCHANGED <<callVars, bundleVars, probeVars, flowVars>>
  /\ InLoop /\ pc # "fin"
  /\ ~chanBroken
  /\ chanExit = None
  /\ emitted.n < MaxEmit
  /\ \/ \E c \in OutChunks :
          /\ MayEmit("stdout", c)
          /\ chanOut' = Append(chanOut, c)
          /\ emitted' = [n |-> emitted.n + 1, ack |-> emitted.ack \/ c \in AckChunks]
          /\ UNCHANGED chanErr
     \/ \E c \in ErrChunks :
          /\ MayEmit("stderr", c)
          /\ chanErr' = Append(chanErr, c)
          /\ emitted' = [emitted EXCEPT !.n = @ + 1]
          /\ UNCHANGED chanOut
  /\ UNCHANGED <<chanExit, chanBroken, chanClosed, chanEof>>
  /\ UNCHANGED sessVars
  /\ UNCHANGED runVars

\* the remote command ends (or the channel closes without a status: -1)
EnvExit ==
  /\ UNCHANGED resetVars
  /\ UNCHANGED copyVars
  /\ UNCHANGED restoreVars
  /\ UNCHANGED <<callVars, bundleVars, probeVars, flowVars>>
  /\ InLoop /\ pc # "fin"
  /\ ~chanBroken
  /\ chanExit = None
  /\ \E s \in ExitStatuses : MayExit(s) /\ chanExit' = Some(s)
  /\ UNCHANGED <<chanOut, chanErr, chanBroken, emitted, chanClosed, chanEof>>
  /\ UNCHANGED sessVars
  /\ UNCHANGED runVars

\* the transport drops
EnvDrop ==
  /\ UNCHANGED resetVars
  /\ UNCHANGED copyVars
  /\ UNCHANGED restoreVars
  /\ UNCHANGED <<callVars, bundleVars, probeVars, flowVars>>
  /\ UNCHANGED conn
  /\ InLoop
  /\ MayFault
  /\ ~chanBroken
  /\ chanBroken' = TRUE
  /\ client' = IF client = "active" THEN "inactive" ELSE client
  /\ UNCHANGED <<chanOut, chanErr, chanExit, emitted, chanClosed, chanEof>>
  /\ UNCHANGED runVars

(***************************************************************************)
(* Specification of RemoteExecutor used directly.                          *)
(***************************************************************************)
TokenSets == { {}, {T_ok} }

RunParams ==
  [command : {"cmd"}, expect_disconnect : BOOLEAN, success_tokens : TokenSets,
   timeout : BOOLEAN, input_data : BOOLEAN]

InitRun ==
  /\ client = "none"
  /\ pc = "idle"
  /\ params = NoParams
  /\ buffers = [k \in Kinds |-> <<>>]
  /\ collected = [k \in Kinds |-> <<>>]
  /\ recvd = [k \in Kinds |-> <<>>]
  /\ success_seen = FALSE
  /\ result = NoResult
  /\ chanOut = <<>>
  /\ chanErr = <<>>
  /\ chanExit = None
  /\ chanBroken = FALSE
  /\ chanClosed = FALSE
  /\ chanEof = FALSE
  /\ emitted = [n |-> 0, ack |-> FALSE]
  /\ rphase = "Idle"
  /\ cycles = 0
  /\ readyAfter = 0
  /\ fs = NoFs /\ fs0 = NoFs /\ cp = NoCopy
  /\ rs = NoRestore
  /\ conn = NoConn
  /\ scall = NoCall
  /\ xf = NoXfer
  /\ bk = NoBackup
  /\ moonraker_connectivity = ConnectivityStatus
  /\ probe = NoProbe
  /\ mon = NoMonitor
  /\ wf = NoFlow

CallRun ==
  /\ \E p \in RunParams : Call(p)
  /\ UNCHANGED <<client, conn>>
  /\ UNCHANGED resetVars
  /\ UNCHANGED copyVars
  /\ UNCHANGED restoreVars
  /\ UNCHANGED <<callVars, bundleVars, probeVars, flowVars>>

\* the connection dies while no command is running
EnvIdleDrop ==
  /\ pc \in {"idle", "open", "done"}
  /\ rphase = "Idle"
  /\ client = "active"
  /\ client' = "inactive"
  /\ UNCHANGED conn
  /\ UNCHANGED runVars
  /\ UNCHANGED chanVars
  /\ UNCHANGED resetVars
  /\ UNCHANGED copyVars
  /\ UNCHANGED restoreVars
  /\ UNCHANGED <<callVars, bundleVars, probeVars, flowVars>>

NextRun ==
  \/ CallRun
  \/ RunConnect
  \/ RunOpenChannel
  \/ RunInput
  \/ RunTop
  \/ RunRecvOut
  \/ RunRecvErr
  \/ RunCheckExit
  \/ RunFinish
  \/ EnvEmit
  \/ EnvExit
  \/ EnvDrop
  \/ EnvIdleDrop

SpecRun == InitRun /\ [][NextRun]_vars

(***************************************************************************)
(* Specification of run() reading a remote side that sends its output in   *)
(* arbitrary pieces, with success tokens written in either case.           *)
(***************************************************************************)
\* pieces of stdout: single characters, a CRLF line, a piece that holds the
\* end of one line and the start of the next
StdoutPieces ==
  { <<"o">>, <<"k">>, <<NL>>, <<"O", "K", CR, NL>>, <<"k", NL, "o">> }

StderrPieces == { <<"e">>, <<NL>> }

StreamTokenSets == { {}, {T_ok}, {T_OK} }

StreamParams ==
  [command : {"cmd"}, expect_disconnect : {FALSE}, success_tokens : StreamTokenSets,
   timeout : {FALSE}, input_data : {FALSE}]

StreamCall ==
  /\ pc = "idle"
  /\ \E p \in StreamParams : Call(p)
  /\ UNCHANGED <<client, conn>>
  /\ UNCHANGED resetVars
  /\ UNCHANGED copyVars
  /\ UNCHANGED restoreVars
  /\ UNCHANGED <<callVars, bundleVars, probeVars, flowVars>>

\* the remote side sends one piece on one of the streams
EnvSend ==
  /\ InLoop /\ pc # "fin"
  /\ ~chanBroken
  /\ chanExit = None
  /\ emitted.n < MaxPieces
  /\ \/ \E c \in StdoutPieces :
          /\ chanOut' = Append(chanOut, c)
          /\ UNCHANGED chanErr
     \/ \E c \in StderrPieces :
          /\ chanErr' = Append(chanErr, c)
          /\ UNCHANGED chanOut
  /\ emitted' = [emitted EXCEPT !.n = @ + 1]
  /\ UNCHANGED <<chanExit, chanBroken, chanClosed, chanEof>>
  /\ UNCHANGED sessVars
  /\ UNCHANGED runVars
  /\ UNCHANGED resetVars
  /\ UNCHANGED copyVars
  /\ UNCHANGED restoreVars
  /\ UNCHANGED <<callVars, bundleVars, probeVars, flowVars>>

InitStream == InitRun

NextStream ==
  \/ StreamCall
  \/ RunConnect
  \/ RunOpenChannel
  \/ RunTop
  \/ RunRecvOut
  \/ RunRecvErr
  \/ RunCheckExit
  \/ RunFinish
  \/ EnvSend
  \/ EnvExit

SpecStream == InitStream /\ [][NextStream]_vars

(***************************************************************************)
(* Specification of the session: connect(force) and close() called         *)
(* directly, between runs.                                                 *)
(***************************************************************************)
SessIdle == pc \in {"idle", "done"} /\ rphase = "Idle"

\* a caller calls connect(force=force)
SessConnect ==
  /\ SessIdle
  /\ \E force \in BOOLEAN, oc \in ConnectOutcomes, fails \in BOOLEAN :
       LET reuse == ~force /\ transport_is_active(client)
           r == connect(client, force, oc)
       IN IF ~reuse /\ CloseRaises(client, fails)
          THEN \* self.close() at the head of connect() raised
               /\ client' = close(client)
               /\ UNCHANGED conn
               /\ scall' = [op |-> "connect", force |-> force, before |-> client,
                            raised |-> TRUE, exc |-> "Exception", cause |-> "close",
                            opened |-> FALSE, closed |-> TRUE]
          ELSE /\ ~fails
               /\ client' = r.client
               /\ conn' = Leaks(conn, r)
               /\ scall' = [op |-> "connect", force |-> force, before |-> client,
                            raised |-> r.raised,
                            exc |-> IF r.raised THEN "SSHConnectionError" ELSE "",
                            cause |-> r.cause, opened |-> r.opened,
                            closed |-> r.closed]
  /\ UNCHANGED runVars
  /\ UNCHANGED chanVars
  /\ UNCHANGED resetVars
  /\ UNCHANGED copyVars
  /\ UNCHANGED restoreVars
  /\ UNCHANGED <<bundleVars, probeVars, flowVars>>

\* a caller calls close()
SessClose ==
  /\ SessIdle
  /\ \E fails \in BOOLEAN :
       /\ fails => client # "none"
       /\ client' = close(client)
       /\ scall' = [op |-> "close", force |-> FALSE, before |-> client,
                    raised |-> CloseRaises(client, fails),
                    exc |-> IF CloseRaises(client, fails) THEN "Exception" ELSE "",
                    cause |-> IF CloseRaises(client, fails) THEN "close" ELSE "",
                    opened |-> FALSE, closed |-> client # "none"]
  /\ UNCHANGED conn
  /\ UNCHANGED runVars
  /\ UNCHANGED chanVars
  /\ UNCHANGED resetVars
  /\ UNCHANGED copyVars
  /\ UNCHANGED restoreVars
  /\ UNCHANGED <<bundleVars, probeVars, flowVars>>

SessParams ==
  [command : {"cmd"}, expect_disconnect : BOOLEAN, success_tokens : {{}},
   timeout : BOOLEAN, input_data : BOOLEAN]

\* a caller calls run()
SessRun ==
  /\ \E p \in SessParams : Call(p)
  /\ UNCHANGED <<client, conn>>
  /\ UNCHANGED resetVars
  /\ UNCHANGED copyVars
  /\ UNCHANGED restoreVars
  /\ UNCHANGED <<callVars, bundleVars, probeVars, flowVars>>

InitSession == InitRun

NextSession ==
  \/ SessConnect
  \/ SessClose
  \/ SessRun
  \/ RunConnect
  \/ RunOpenChannel
  \/ RunInput
  \/ RunTop
  \/ RunRecvOut
  \/ RunRecvErr
  \/ RunCheckExit
  \/ RunFinish
  \/ EnvExit
  \/ EnvDrop
  \/ EnvIdleDrop

SpecSession == InitSession /\ [][NextSession]_vars

(***************************************************************************)
(* PrinterInstaller.reset_device.                                          *)
(***************************************************************************)
\* run("echo test") of ensure_ssh_access
P_test ==
  [command |-> "echo test", expect_disconnect |-> FALSE, success_tokens |-> {},
   timeout |-> FALSE, input_data |-> FALSE]

\* run('echo "all" | /usr/bin/nc -U /var/run/wipe.sock', timeout=120,
\*     expect_disconnect=True, success_tokens=("ok",))
P_reset ==
  [command |-> "wipe", expect_disconnect |-> TRUE, success_tokens |-> {T_ok},
   timeout |-> TRUE, input_data |-> FALSE]

\* mutant: the echo of the polling loop has no timeout
P_echo_NoTimeout ==
  [command |-> "echo online", expect_disconnect |-> FALSE, success_tokens |-> {},
   timeout |-> FALSE, input_data |-> FALSE]

\* run("echo online", timeout=5)
P_echo ==
  [command |-> "echo online", expect_disconnect |-> FALSE, success_tokens |-> {},
   timeout |-> TRUE, input_data |-> FALSE]

\* mutant: any echo that returned ends the loop
BackOnline_AnyOutput(r) == TRUE

\* the test that ends the polling loop: "online" in result.stdout
BackOnline(r) == Contains(r.stdout, T_online)

\* reset_device starts: ensure_ssh_access() connects and runs "echo test"
ResetStart ==
  /\ UNCHANGED copyVars
  /\ UNCHANGED restoreVars
  /\ UNCHANGED <<callVars, bundleVars, probeVars, flowVars>>
  /\ rphase = "Idle"
  /\ pc = "idle"
  /\ \E oc \in ConnectOutcomes :
       LET r == connect(client, FALSE, oc) IN
       /\ client' = r.client
       /\ conn' = Leaks(conn, r)
       /\ IF r.raised
          THEN /\ rphase' = "Failed"
               /\ UNCHANGED runVars
               /\ UNCHANGED chanVars
          ELSE /\ rphase' = "Ensure"
               /\ Call(P_test)
  /\ UNCHANGED <<cycles, readyAfter>>

\* ensure_ssh_access() ends; on success the reset command is issued
ResetIssue ==
  /\ UNCHANGED copyVars
  /\ UNCHANGED restoreVars
  /\ UNCHANGED <<callVars, bundleVars, probeVars, flowVars>>
  /\ UNCHANGED conn
  /\ rphase = "Ensure"
  /\ pc = "done"
  /\ IF result.kind = "returned" /\ Contains(result.stdout, T_test)
     THEN /\ rphase' = "ResetIssued"
          /\ Call(P_reset)
     ELSE /\ rphase' = "Failed"
          /\ UNCHANGED runVars
          /\ UNCHANGED chanVars
  /\ UNCHANGED <<client, cycles, readyAfter>>

\* mutant: the outcome of the reset command is not looked at
ResetAcknowledged_IgnoreFailure ==
  /\ UNCHANGED copyVars
  /\ UNCHANGED restoreVars
  /\ UNCHANGED <<callVars, bundleVars, probeVars, flowVars>>
  /\ UNCHANGED conn
  /\ rphase = "ResetIssued"
  /\ pc = "done"
  /\ rphase' = "Rebooting"
  /\ UNCHANGED <<client, cycles, readyAfter>>
  /\ UNCHANGED runVars
  /\ UNCHANGED chanVars

\* the reset command returned or raised
ResetAcknowledged ==
  /\ UNCHANGED copyVars
  /\ UNCHANGED restoreVars
  /\ UNCHANGED <<callVars, bundleVars, probeVars, flowVars>>
  /\ UNCHANGED conn
  /\ rphase = "ResetIssued"
  /\ pc = "done"
  /\ rphase' = IF result.kind = "returned" THEN "Rebooting" ELSE "Failed"
  /\ UNCHANGED <<client, cycles, readyAfter>>
  /\ UNCHANGED runVars
  /\ UNCHANGED chanVars

\* time.sleep(30); self.executor.close()
ResetGrace ==
  /\ UNCHANGED copyVars
  /\ UNCHANGED restoreVars
  /\ UNCHANGED <<callVars, bundleVars, probeVars, flowVars>>
  /\ UNCHANGED conn
  /\ rphase = "Rebooting"
  /\ rphase' = "Polling"
  /\ client' = close(client)
  /\ UNCHANGED <<cycles, readyAfter>>
  /\ UNCHANGED runVars
  /\ UNCHANGED chanVars

\* one turn of the polling loop up to the echo: time.sleep(5), the port
\* probe, connect(force=True), and run("echo online") entered
PollCycle ==
  /\ UNCHANGED copyVars
  /\ UNCHANGED restoreVars
  /\ UNCHANGED <<callVars, bundleVars, probeVars, flowVars>>
  /\ rphase = "Polling"
  /\ \/ \* _is_port_open() is false: continue
        /\ MayFault
        /\ cycles' = cycles + 1
        /\ UNCHANGED <<rphase, client, conn>>
        /\ UNCHANGED runVars
        /\ UNCHANGED chanVars
     \/ \E oc \in ConnectOutcomes :
          LET r == connect(client, TRUE, oc) IN
          /\ MayConnect(oc)
          /\ conn' = Leaks(conn, r)
          /\ IF r.raised
             THEN \* except InstallerError: close(); continue
                  /\ client' = close(r.client)
                  /\ cycles' = cycles + 1
                  /\ UNCHANGED rphase
                  /\ UNCHANGED runVars
                  /\ UNCHANGED chanVars
             ELSE /\ client' = r.client
                  /\ rphase' = "Probe"
                  /\ Call(P_echo)
                  /\ UNCHANGED cycles
  /\ UNCHANGED readyAfter

\* mutant: an echo that raised ends reset_device
PollEcho_FailOnError ==
  /\ UNCHANGED copyVars
  /\ UNCHANGED restoreVars
  /\ UNCHANGED <<callVars, bundleVars, probeVars, flowVars>>
  /\ UNCHANGED conn
  /\ rphase = "Probe"
  /\ pc = "done"
  /\ IF result.kind = "raised"
     THEN /\ rphase' = "Failed"
          /\ UNCHANGED <<client, cycles>>
     ELSE IF BackOnline(result)
     THEN /\ rphase' = "Online"
          /\ UNCHANGED <<client, cycles>>
     ELSE /\ rphase' = "Polling"
          /\ cycles' = cycles + 1
          /\ UNCHANGED client
  /\ UNCHANGED readyAfter
  /\ UNCHANGED runVars
  /\ UNCHANGED chanVars

\* the echo returned or raised: break, or continue (closing after an error)
PollEcho ==
  /\ UNCHANGED copyVars
  /\ UNCHANGED restoreVars
  /\ UNCHANGED <<callVars, bundleVars, probeVars, flowVars>>
  /\ UNCHANGED conn
  /\ rphase = "Probe"
  /\ pc = "done"
  /\ IF result.kind = "raised"
     THEN /\ client' = close(client)
          /\ cycles' = cycles + 1
          /\ rphase' = "Polling"
     ELSE IF BackOnline(result)
     THEN /\ rphase' = "Online"
          /\ UNCHANGED <<client, cycles>>
     ELSE /\ rphase' = "Polling"
          /\ cycles' = cycles + 1
          /\ UNCHANGED client
  /\ UNCHANGED readyAfter
  /\ UNCHANGED runVars
  /\ UNCHANGED chanVars

InitReset ==
  /\ client = "none"
  /\ pc = "idle"
  /\ params = NoParams
  /\ buffers = [k \in Kinds |-> <<>>]
  /\ collected = [k \in Kinds |-> <<>>]
  /\ recvd = [k \in Kinds |-> <<>>]
  /\ success_seen = FALSE
  /\ result = NoResult
  /\ chanOut = <<>>
  /\ chanErr = <<>>
  /\ chanExit = None
  /\ chanBroken = FALSE
  /\ chanClosed = FALSE
  /\ chanEof = FALSE
  /\ emitted = [n |-> 0, ack |-> FALSE]
  /\ rphase = "Idle"
  /\ cycles = 0
  /\ readyAfter \in 0..MaxK
  /\ fs = NoFs /\ fs0 = NoFs /\ cp = NoCopy
  /\ rs = NoRestore
  /\ conn = NoConn
  /\ scall = NoCall
  /\ xf = NoXfer
  /\ bk = NoBackup
  /\ moonraker_connectivity = ConnectivityStatus
  /\ probe = NoProbe
  /\ mon = NoMonitor
  /\ wf = NoFlow

NextReset ==
  \/ ResetStart
  \/ ResetIssue
  \/ ResetAcknowledged
  \/ ResetGrace
  \/ PollCycle
  \/ PollEcho
  \/ RunConnect
  \/ RunOpenChannel
  \/ RunTop
  \/ RunRecvOut
  \/ RunRecvErr
  \/ RunCheckExit
  \/ RunFinish
  \/ EnvEmit
  \/ EnvExit
  \/ EnvDrop

SpecReset == InitReset /\ [][NextReset]_vars

\* the steps of reset_device itself, the run() calls it makes included
ResetProgram ==
  \/ ResetStart
  \/ ResetIssue
  \/ ResetAcknowledged
  \/ ResetGrace
  \/ PollCycle
  \/ PollEcho
  \/ RunConnect
  \/ RunOpenChannel
  \/ RunTop
  \/ RunRecvOut
  \/ RunRecvErr
  \/ RunCheckExit
  \/ RunFinish

\* the timeout test of the read loop succeeds
RunTimesOut == RunTop /\ pc' = "done"

\* reset_device is one thread that keeps running; the clock advances, so a
\* read loop that goes on turning meets its deadline; a device that is ready
\* answers the command it was sent and ends it
FairReset ==
  /\ WF_vars(ResetProgram)
  /\ SF_vars(RunTimesOut)
  /\ WF_vars(DevReady /\ EnvEmit)
  /\ WF_vars(DevReady /\ EnvExit)

SpecResetFair == InitReset /\ [][NextReset]_vars /\ FairReset

(***************************************************************************)
(* scripts/lib/file_ops.py: copy_file and atomic_copy.                     *)
(* A file is None (absent) or Some(size).  Every call site of the          *)
(* repository uses the defaults verify=True and make_parents=True.         *)
(***************************************************************************)
verify == TRUE
make_parents == TRUE

\* mutant: the capacity check without the safety margin
required_space_NoMargin(src_size) == src_size

\* required_space = int(src_size * 1.5)
required_space(src_size) == (3 * src_size) \div 2

\* mutant: the same delay before every retry
sleep_time_Constant(attempt) == 1

\* sleep_time = 0.5 * (2 ** attempt), in units of half a second
sleep_time(attempt) == 2 ^ attempt

\* mutant: an empty file is rejected whatever the source size
VerifyError_EmptyAlwaysBad(file, src_size) ==
  IF file = None THEN "missing"
  ELSE IF The(file) # src_size THEN "size_mismatch"
  ELSE IF The(file) = 0 THEN "empty"
  ELSE ""

\* mutant: the size of the copy is not compared with the source
VerifyError_NoSizeCheck(file, src_size) ==
  IF file = None THEN "missing"
  ELSE IF src_size > 0 /\ The(file) = 0 THEN "empty"
  ELSE ""

\* the verification block: the error it raises, "" when it passes
VerifyError(file, src_size) ==
  IF file = None THEN "missing"
  ELSE IF The(file) # src_size THEN "size_mismatch"
  ELSE IF src_size > 0 /\ The(file) = 0 THEN "empty"
  ELSE ""

\* what shutil.copy2 leaves at its target: e.copy is "ok", "short" (returns
\* with fewer bytes written), "raise_partial" or "raise_clean"
CopyTarget(e, src_size) ==
  CASE e.copy = "ok" -> Some(src_size)
    [] e.copy = "short" -> Some(e.size)
    [] e.copy = "raise_partial" -> Some(e.size)
    [] OTHER -> None

CopyRaises(e) == e.copy \in {"raise_partial", "raise_clean"}

\* what one attempt can meet
AttemptEnv(src_size) ==
  { e \in [copy : {"ok", "short", "raise_partial", "raise_clean"},
           size : 0..MaxSize, chmod_ok : BOOLEAN, replace_ok : BOOLEAN] :
      /\ e.copy \in {"ok", "raise_clean"} => e.size = 0
      /\ e.copy = "short" => e.size < src_size
      /\ e.copy = "raise_partial" => (e.size < src_size \/ e.size = 0) }

\* mutant: the handler of copy_file leaves the destination it wrote
FileCleanup_Keep(dst) == dst

\* copy_file's handler: if dst_path.exists(): dst_path.unlink()
FileCleanup(dst) == None

\* one attempt of copy_file, handler included: [dst, err, log]
FileAttempt(f, e, src_size, mode) ==
  LET log1 == IF f.dst # None THEN <<"unlink_dst">> ELSE <<>>
      dstC == CopyTarget(e, src_size)
      log2 == log1 \o <<"write_dst">>
      errC == IF CopyRaises(e) THEN "copy" ELSE ""
      errM == IF errC = "" /\ mode /\ ~e.chmod_ok THEN "chmod" ELSE errC
      errV == IF errM # "" THEN errM
              ELSE IF verify THEN VerifyError(dstC, src_size) ELSE ""
      dstH == IF errV # "" /\ dstC # None THEN FileCleanup(dstC) ELSE dstC
      log3 == log2 \o (IF errV # "" /\ dstC # None /\ dstH = None
                       THEN <<"unlink_dst">> ELSE <<>>)
  IN [dst |-> dstH, tmp |-> None, err |-> errV, log |-> log3]

\* mutant: the handler of atomic_copy keeps a destination of the wrong size
AtomicCleanupDst_Keep(dst, src_size) == dst

\* atomic_copy's handler on the destination: removed only when its size
\* differs from the source's
AtomicCleanupDst(dst, src_size) ==
  IF dst # None /\ verify /\ The(dst) # src_size THEN None ELSE dst

\* mutant: the handler of atomic_copy leaves the temporary file it wrote
AtomicCleanupTmp_Keep(tmp) == tmp

\* atomic_copy's handler on the temporary file:
\* if tmp_path.exists(): tmp_path.unlink()
AtomicCleanupTmp(tmp) == None

\* one attempt of atomic_copy, handler included: [dst, tmp, err, log]
AtomicAttempt(f, e, src_size, mode, attempt) ==
  LET log1 == IF f.tmp[attempt] # None THEN <<"unlink_tmp">> ELSE <<>>
      tmpC == CopyTarget(e, src_size)
      log2 == log1 \o <<"write_tmp">>
      errC == IF CopyRaises(e) THEN "copy" ELSE ""
      errM == IF errC = "" /\ mode /\ ~e.chmod_ok THEN "chmod" ELSE errC
      errV == IF errM # "" THEN errM
              ELSE IF verify THEN VerifyError(tmpC, src_size) ELSE ""
      errR == IF errV # "" THEN errV
              ELSE IF ~e.replace_ok THEN "replace" ELSE ""
      moved == errR = ""
      dstR == IF moved THEN tmpC ELSE f.dst
      tmpR == IF moved THEN None ELSE tmpC
      log3 == log2 \o (IF moved THEN <<"replace">> ELSE <<>>)
      errF == IF errR # "" THEN errR
              ELSE IF verify /\ dstR = None THEN "dst_missing"
              ELSE IF verify /\ The(dstR) # src_size THEN "dst_size_mismatch"
              ELSE ""
      tmpH == IF errF # "" THEN AtomicCleanupTmp(tmpR) ELSE tmpR
      dstH == IF errF # "" THEN AtomicCleanupDst(dstR, src_size) ELSE dstR
      log4 == log3 \o (IF errF # "" /\ tmpR # None THEN <<"unlink_tmp">> ELSE <<>>)
                   \o (IF dstH # dstR THEN <<"unlink_dst">> ELSE <<>>)
  IN [dst |-> dstH, tmp |-> tmpH, err |-> errF, log |-> log4]

CopyRaise(exc, cause) == [kind |-> "raised", exc |-> exc, cause |-> cause]

\* mutant: the directory is made and the free space asked for before the
\* source is looked at
CopyBegin_DirectoryFirst ==
  /\ cp.pc = "called"
  /\ LET made == IF make_parents \/ cp.fn = "atomic_copy" THEN TRUE ELSE fs.parent IN
     IF fs.src = None
     THEN /\ cp' = [cp EXCEPT !.pc = "done", !.statvfs = verify,
                              !.res = CopyRaise("FileNotFoundError", "source")]
          /\ fs' = [fs EXCEPT !.parent = made]
     ELSE LET src_size == The(fs.src)
              asked == verify /\ src_size > 0
          IN /\ fs' = [fs EXCEPT !.parent = made]
             /\ IF asked /\ fs.free < required_space(src_size)
                THEN cp' = [cp EXCEPT !.pc = "done", !.statvfs = asked,
                                      !.res = CopyRaise("IOError", "insufficient_space")]
                ELSE cp' = [cp EXCEPT !.pc = "loop", !.statvfs = asked]
  /\ UNCHANGED fs0
  /\ UNCHANGED <<sessVars, runVars, chanVars, resetVars, restoreVars, callVars, bundleVars, probeVars, flowVars>>

\* the call up to the retry loop: the source test, ensure_directory and the
\* capacity check
CopyBegin ==
  /\ cp.pc = "called"
  /\ IF fs.src = None
     THEN /\ cp' = [cp EXCEPT !.pc = "done",
                              !.res = CopyRaise("FileNotFoundError", "source")]
          /\ UNCHANGED fs
     ELSE LET src_size == The(fs.src)
              made == IF make_parents \/ cp.fn = "atomic_copy" THEN TRUE ELSE fs.parent
              asked == verify /\ src_size > 0
          IN /\ fs' = [fs EXCEPT !.parent = made]
             /\ IF asked /\ fs.free < required_space(src_size)
                THEN cp' = [cp EXCEPT !.pc = "done", !.statvfs = asked,
                                      !.res = CopyRaise("IOError", "insufficient_space")]
                ELSE cp' = [cp EXCEPT !.pc = "loop", !.statvfs = asked]
  /\ UNCHANGED fs0
  /\ UNCHANGED <<sessVars, runVars, chanVars, resetVars, restoreVars, callVars, bundleVars, probeVars, flowVars>>

\* one turn of "for attempt in range(max_retries)"
CopyAttempt ==
  /\ cp.pc = "loop"
  /\ \E e \in AttemptEnv(The(fs.src)) :
       LET src_size == The(fs.src)
           a == IF cp.fn = "atomic_copy"
                THEN AtomicAttempt(fs, e, src_size, cp.mode, cp.attempt)
                ELSE FileAttempt(fs, e, src_size, cp.mode)
           seen == [cp EXCEPT !.tries = @ + 1,
                              !.allRaised = @ /\ CopyRaises(e),
                              !.alog = a.log]
       IN /\ fs' = [fs EXCEPT !.dst = a.dst, !.tmp[cp.attempt] = a.tmp]
          /\ IF a.err = ""
             THEN cp' = [seen EXCEPT !.pc = "done",
                                     !.res = [kind |-> "returned", exc |-> "", cause |-> ""]]
             ELSE IF cp.attempt < cp.max_retries - 1
             THEN cp' = [seen EXCEPT !.last_error = a.err,
                                     !.sleeps = Append(@, sleep_time(cp.attempt)),
                                     !.attempt = @ + 1]
             ELSE cp' = [seen EXCEPT !.last_error = a.err,
                                     !.pc = "done",
                                     !.res = CopyRaise("IOError", a.err)]
  /\ UNCHANGED fs0
  /\ UNCHANGED <<sessVars, runVars, chanVars, resetVars, restoreVars, callVars, bundleVars, probeVars, flowVars>>

CopyFns == {"copy_file", "atomic_copy"}

Files == {None} \cup {Some(n) : n \in 0..MaxSize}

InitCopy ==
  /\ client = "none"
  /\ pc = "idle"
  /\ params = NoParams
  /\ buffers = [k \in Kinds |-> <<>>]
  /\ collected = [k \in Kinds |-> <<>>]
  /\ recvd = [k \in Kinds |-> <<>>]
  /\ success_seen = FALSE
  /\ result = NoResult
  /\ chanOut = <<>>
  /\ chanErr = <<>>
  /\ chanExit = None
  /\ chanBroken = FALSE
  /\ chanClosed = FALSE
  /\ chanEof = FALSE
  /\ emitted = [n |-> 0, ack |-> FALSE]
  /\ rphase = "Idle"
  /\ cycles = 0
  /\ readyAfter = 0
  /\ fs \in [src : Files, dst : Files, tmp : {[a \in TmpNames |-> None]},
             parent : BOOLEAN, free : 0..MaxFree]
  /\ fs.dst # None => fs.parent
  /\ fs0 = fs
  /\ \E fn \in CopyFns, mode \in BOOLEAN, n \in 1..MaxRetries :
       cp = [NoCopy EXCEPT !.fn = fn, !.pc = "called", !.mode = mode,
                           !.max_retries = n]
  /\ rs = NoRestore
  /\ conn = NoConn
  /\ scall = NoCall
  /\ xf = NoXfer
  /\ bk = NoBackup
  /\ moonraker_connectivity = ConnectivityStatus
  /\ probe = NoProbe
  /\ mon = NoMonitor
  /\ wf = NoFlow

NextCopy ==
  \/ CopyBegin
  \/ CopyAttempt

SpecCopy == InitCopy /\ [][NextCopy]_vars

(***************************************************************************)
(* main() with --restore-only DIR.                                         *)
(***************************************************************************)
\* restore_<c> = args.restore_<c> or (none of the three flags given)
Selected(args, c) == args[c] \/ \A d \in Components : ~args[d]

\* the component is in the bundle: the database pair, or the subdirectory
InBundle(b, c) ==
  CASE c = "moonraker" -> b.mdb /\ b.sql
    [] c = "timelapses" -> b.timelapse
    [] OTHER -> b.gcodes

\* _validate_backup_dir(path, requires_moonraker, requires_timelapses,
\* requires_gcodes): TRUE when it returns, FALSE when it ends in sys.exit(2)
validate_backup_dir(b, requires) ==
  /\ b.dir
  /\ requires["moonraker"] => (b.mdb /\ b.sql)
  /\ requires["timelapses"] => b.timelapse
  /\ requires["gcodes"] => b.gcodes

\* if args.restore_only: _validate_backup_dir(...) with the selected components
RestoreValidate ==
  /\ rs.pc = "validate"
  /\ IF validate_backup_dir(rs.bundle, [c \in Components |-> Selected(rs.args, c)])
     THEN rs' = [rs EXCEPT !.pc = "connect"]
     ELSE rs' = [rs EXCEPT !.pc = "exit", !.exit = Some(2)]
  /\ UNCHANGED <<sessVars, runVars, chanVars, resetVars, copyVars, callVars, bundleVars, probeVars, flowVars>>

\* installer.ensure_ssh_access(): an InstallerError ends the program
RestoreConnect ==
  /\ rs.pc = "connect"
  /\ \E ok \in BOOLEAN :
       rs' = IF ok THEN [rs EXCEPT !.pc = "moonraker"]
             ELSE [rs EXCEPT !.pc = "exit", !.fault = TRUE, !.exit = Some(1)]
  /\ UNCHANGED <<sessVars, runVars, chanVars, resetVars, copyVars, callVars, bundleVars, probeVars, flowVars>>

\* where main() goes after the block of component c
AfterComponent(c) ==
  CASE c = "moonraker" -> "timelapses"
    [] c = "timelapses" -> "gcodes"
    [] OTHER -> "finish"

\* the block of one component: restore_<c>(force=True) when it is selected
\* (for the directories: when the subdirectory exists, else a warning); an
\* InstallerError raised by the restore is not caught and ends the program
RestoreComponent(c) ==
  /\ rs.pc = c
  /\ IF ~Selected(rs.args, c)
     THEN rs' = [rs EXCEPT !.pc = AfterComponent(c)]
     ELSE IF c # "moonraker" /\ ~InBundle(rs.bundle, c)
     THEN rs' = [rs EXCEPT !.pc = AfterComponent(c), !.skipped = @ \cup {c}]
     ELSE \E ok \in BOOLEAN :
            rs' = IF ok
                  THEN [rs EXCEPT !.pc = AfterComponent(c), !.restored = @ \cup {c}]
                  ELSE [rs EXCEPT !.pc = "exit", !.fault = TRUE, !.exit = Some(1)]
  /\ UNCHANGED <<sessVars, runVars, chanVars, resetVars, copyVars, callVars, bundleVars, probeVars, flowVars>>

RestoreMoonraker == RestoreComponent("moonraker")
RestoreTimelapses == RestoreComponent("timelapses")
RestoreGcodes == RestoreComponent("gcodes")

\* "Restore completed successfully" and exit 0, or "No components were
\* restored." and exit 1
RestoreFinish ==
  /\ rs.pc = "finish"
  /\ rs' = [rs EXCEPT !.pc = "exit",
                      !.exit = IF rs.restored # {} THEN Some(0) ELSE Some(1)]
  /\ UNCHANGED <<sessVars, runVars, chanVars, resetVars, copyVars, callVars, bundleVars, probeVars, flowVars>>

InitRestore ==
  /\ client = "none"
  /\ pc = "idle"
  /\ params = NoParams
  /\ buffers = [k \in Kinds |-> <<>>]
  /\ collected = [k \in Kinds |-> <<>>]
  /\ recvd = [k \in Kinds |-> <<>>]
  /\ success_seen = FALSE
  /\ result = NoResult
  /\ chanOut = <<>>
  /\ chanErr = <<>>
  /\ chanExit = None
  /\ chanBroken = FALSE
  /\ chanClosed = FALSE
  /\ chanEof = FALSE
  /\ emitted = [n |-> 0, ack |-> FALSE]
  /\ rphase = "Idle"
  /\ cycles = 0
  /\ readyAfter = 0
  /\ fs = NoFs /\ fs0 = NoFs /\ cp = NoCopy
  /\ conn = NoConn
  /\ scall = NoCall
  /\ xf = NoXfer
  /\ bk = NoBackup
  /\ moonraker_connectivity = ConnectivityStatus
  /\ probe = NoProbe
  /\ mon = NoMonitor
  /\ wf = NoFlow
  /\ \E a \in [Components -> BOOLEAN],
        b \in [dir : BOOLEAN, mdb : BOOLEAN, sql : BOOLEAN,
               timelapse : BOOLEAN, gcodes : BOOLEAN] :
       /\ ~b.dir => (~b.mdb /\ ~b.sql /\ ~b.timelapse /\ ~b.gcodes)
       /\ rs = [NoRestore EXCEPT !.pc = "validate", !.args = a, !.bundle = b]

NextRestore ==
  \/ RestoreValidate
  \/ RestoreConnect
  \/ RestoreMoonraker
  \/ RestoreTimelapses
  \/ RestoreGcodes
  \/ RestoreFinish

SpecRestore == InitRestore /\ [][NextRestore]_vars

(***************************************************************************)
(* One component transfer: backup_moonraker_stats, restore_moonraker_stats,*)
(* backup_timelapse_files, restore_timelapse_files.  The files of the      *)
(* component are numbered 1..n; a command or an SFTP call of the function  *)
(* is a step whose outcome the device chooses.                             *)
(***************************************************************************)
TransferFns ==
  {"backup_moonraker_stats", "restore_moonraker_stats",
   "backup_timelapse_files", "restore_timelapse_files"}

IsRestore(fn) == fn \in {"restore_moonraker_stats", "restore_timelapse_files"}

\* targets = [data.mdb, moonraker-sql.db]
MoonrakerTargets == 2

\* mutant: the Moonraker service is started again before the files are put
NextPhase_StartBeforeFiles(fn, ph) ==
  CASE fn = "restore_moonraker_stats" ->
         (CASE ph = "called" -> "stop" [] ph = "stop" -> "mkdir" [] ph = "mkdir" -> "open"
            [] ph = "open" -> "start" [] ph = "start" -> "loop" [] OTHER -> "done")
    [] fn = "backup_moonraker_stats" ->
         (CASE ph = "called" -> "open" [] ph = "open" -> "loop" [] OTHER -> "done")
    [] fn = "backup_timelapse_files" ->
         (CASE ph = "called" -> "probe" [] ph = "probe" -> "open" [] ph = "open" -> "loop"
            [] OTHER -> "done")
    [] OTHER ->
         (CASE ph = "called" -> "mkdir" [] ph = "mkdir" -> "open" [] ph = "open" -> "loop"
            [] OTHER -> "done")

\* the order of the steps of each function
NextPhase(fn, ph) ==
  CASE fn = "restore_moonraker_stats" ->
         (CASE ph = "called" -> "stop" [] ph = "stop" -> "mkdir" [] ph = "mkdir" -> "open"
            [] ph = "open" -> "loop" [] ph = "loop" -> "start" [] OTHER -> "done")
    [] fn = "backup_moonraker_stats" ->
         (CASE ph = "called" -> "open" [] ph = "open" -> "loop" [] OTHER -> "done")
    [] fn = "backup_timelapse_files" ->
         (CASE ph = "called" -> "probe" [] ph = "probe" -> "open" [] ph = "open" -> "loop"
            [] OTHER -> "done")
    [] OTHER ->
         (CASE ph = "called" -> "mkdir" [] ph = "mkdir" -> "open" [] ph = "open" -> "loop"
            [] OTHER -> "done")

XferReturned(warned) == [kind |-> "returned", exc |-> "", names |-> <<>>, warned |-> warned]

XferRaised(exc, names) == [kind |-> "raised", exc |-> exc, names |-> names, warned |-> 0]

\* what the function does after its loop with the files that failed:
\* backup_moonraker_stats raises FileTransferError naming them, the timelapse
\* functions log a warning with their number, restore_moonraker_stats has
\* logged each and says nothing more
XferResult(fn, failed) ==
  IF fn = "backup_moonraker_stats" /\ failed # <<>>
  THEN XferRaised("FileTransferError", failed)
  ELSE IF fn \in {"backup_timelapse_files", "restore_timelapse_files"}
  THEN XferReturned(Len(failed))
  ELSE XferReturned(0)

\* where a step goes when it went well: the next phase, the function's
\* result when that is the end
XferGo(x, ph) ==
  LET nxt == NextPhase(x.fn, ph) IN
  IF nxt = "done"
  THEN [x EXCEPT !.pc = "done", !.res = XferResult(x.fn, x.failed)]
  ELSE [x EXCEPT !.pc = nxt]

XferFrame ==
  /\ UNCHANGED <<sessVars, runVars, chanVars, resetVars, copyVars, restoreVars, callVars, probeVars, flowVars>>
  /\ UNCHANGED bk

\* the head of the function: a restore with no recorded backup files
\* returns at once; otherwise ensure_ssh_access()
XferBegin ==
  /\ xf.pc = "called"
  /\ IF IsRestore(xf.fn) /\ xf.n = 0
     THEN xf' = [xf EXCEPT !.pc = "done", !.res = XferReturned(0)]
     ELSE \E ok \in BOOLEAN :
            xf' = IF ok THEN XferGo(xf, "called")
                  ELSE [xf EXCEPT !.pc = "done",
                                  !.res = XferRaised("SSHConnectionError", <<>>)]
  /\ XferFrame

\* run("/etc/init.d/<service> stop", timeout=30)
XferStop ==
  /\ xf.pc = "stop"
  /\ \E ok \in BOOLEAN :
       xf' = IF ok THEN [XferGo(xf, "stop") EXCEPT !.svc = "stopped"]
             ELSE [xf EXCEPT !.pc = "done", !.svc = "unknown",
                             !.res = XferRaised("CommandExecutionError", <<>>)]
  /\ XferFrame

\* backup_timelapse_files: "test -d <dir> && echo exists", then "ls -1 <dir>";
\* a CommandExecutionError, no directory or no file ends the backup quietly
XferProbe ==
  /\ xf.pc = "probe"
  /\ \E oc \in {"ok", "nothing", "raise"} :
       /\ oc = "ok" => xf.n > 0
       /\ xf' = CASE oc = "ok" -> XferGo(xf, "probe")
                  [] oc = "nothing" -> [xf EXCEPT !.pc = "done", !.res = XferReturned(0)]
                  [] OTHER -> [xf EXCEPT !.pc = "done",
                                         !.res = XferRaised("SSHConnectionError", <<>>)]
  /\ XferFrame

\* run("mkdir -p <dir>")
XferMkdir ==
  /\ xf.pc = "mkdir"
  /\ \E ok \in BOOLEAN :
       xf' = IF ok THEN XferGo(xf, "mkdir")
             ELSE [xf EXCEPT !.pc = "done",
                             !.res = XferRaised("CommandExecutionError", <<>>)]
  /\ XferFrame

\* the files that go into the loop and the SFTP session.  A restore keeps
\* the files that exist locally and returns when none does, before it opens
\* SFTP; backup_timelapse_files opens SFTP, keeps the files sftp.stat finds
\* and returns when none is; backup_moonraker_stats keeps every target.
XferOpen ==
  /\ xf.pc = "open"
  /\ \E infos \in SUBSET (1..xf.n), opened \in BOOLEAN :
       /\ xf.fn = "backup_moonraker_stats" => infos = 1..xf.n
       /\ xf' =
            IF IsRestore(xf.fn) /\ infos = {}
            THEN [xf EXCEPT !.pc = "done", !.res = XferReturned(0)]
            ELSE IF ~opened
            THEN [xf EXCEPT !.pc = "done", !.res = XferRaised("FileTransferError", <<>>)]
            ELSE IF infos = {}
            THEN [xf EXCEPT !.pc = "done", !.res = XferReturned(0)]
            ELSE [XferGo(xf, "open") EXCEPT !.infos = infos]
  /\ XferFrame

\* the file the loop is at
XferCurrent(x) == CHOOSE f \in x.infos \ x.attempted :
                    \A g \in x.infos \ x.attempted : f <= g

\* how sftp.get or sftp.put of file f can end: a backup cannot get a file
\* that is not on the device (IOError "No such file"), unless the session
\* breaks first
TransferOutcomes(x, f) ==
  IF ~IsRestore(x.fn) /\ f \notin x.remote
  THEN {"ioerror", "other"}
  ELSE {"ok", "ioerror", "other"}

\* one turn of the loop: sftp.get or sftp.put of one file.  An IOError is
\* caught and the file noted; any other exception leaves the function.
XferFile ==
  /\ xf.pc = "loop"
  /\ xf.infos \ xf.attempted # {}
  /\ \E oc \in TransferOutcomes(xf, XferCurrent(xf)) :
       LET f == XferCurrent(xf)
           x1 == [xf EXCEPT !.attempted = @ \cup {f},
                            !.wrote = IF IsRestore(xf.fn) THEN Append(@, xf.svc) ELSE @]
       IN xf' = CASE oc = "ok" -> [x1 EXCEPT !.succeeded = @ + 1]
                  [] oc = "ioerror" -> [x1 EXCEPT !.failed = Append(@, f)]
                  [] OTHER -> [x1 EXCEPT !.pc = "done", !.fatal = TRUE,
                                         !.res = XferRaised("SSHException", <<>>)]
  /\ XferFrame

\* the loop is over
XferEnd ==
  /\ xf.pc = "loop"
  /\ xf.infos \ xf.attempted = {}
  /\ xf' = XferGo(xf, "loop")
  /\ XferFrame

\* run("/etc/init.d/<service> start", timeout=30)
XferStart ==
  /\ xf.pc = "start"
  /\ \E ok \in BOOLEAN :
       xf' = IF ok THEN [XferGo(xf, "start") EXCEPT !.svc = "started"]
             ELSE [xf EXCEPT !.pc = "done", !.svc = "started",
                             !.res = XferRaised("CommandExecutionError", <<>>)]
  /\ XferFrame

InitTransfer ==
  /\ client = "none"
  /\ pc = "idle"
  /\ params = NoParams
  /\ buffers = [k \in Kinds |-> <<>>]
  /\ collected = [k \in Kinds |-> <<>>]
  /\ recvd = [k \in Kinds |-> <<>>]
  /\ success_seen = FALSE
  /\ result = NoResult
  /\ chanOut = <<>>
  /\ chanErr = <<>>
  /\ chanExit = None
  /\ chanBroken = FALSE
  /\ chanClosed = FALSE
  /\ chanEof = FALSE
  /\ emitted = [n |-> 0, ack |-> FALSE]
  /\ rphase = "Idle"
  /\ cycles = 0
  /\ readyAfter = 0
  /\ fs = NoFs /\ fs0 = NoFs /\ cp = NoCopy
  /\ rs = NoRestore
  /\ conn = NoConn
  /\ scall = NoCall
  /\ bk = NoBackup
  /\ moonraker_connectivity = ConnectivityStatus
  /\ probe = NoProbe
  /\ mon = NoMonitor
  /\ wf = NoFlow
  /\ \E fn \in TransferFns, n \in 0..MaxFiles :
       /\ fn = "backup_moonraker_stats" => n = MoonrakerTargets
       /\ fn = "restore_moonraker_stats" => n <= MoonrakerTargets
       /\ \E remote \in SUBSET (1..n) :
            \* the database files may be missing on the device; the files
            \* of the timelapse directory are those that "ls" printed
            /\ fn = "backup_timelapse_files" => remote = 1..n
            /\ IsRestore(fn) => remote = {}
            /\ xf = [NoXfer EXCEPT !.fn = fn, !.pc = "called", !.n = n,
                                   !.remote = remote]

NextTransfer ==
  \/ XferBegin
  \/ XferStop
  \/ XferProbe
  \/ XferMkdir
  \/ XferOpen
  \/ XferFile
  \/ XferEnd
  \/ XferStart

SpecTransfer == InitTransfer /\ [][NextTransfer]_vars

(***************************************************************************)
(* main() with --backup-only: the selected components are backed up one    *)
(* after the other.  main() has no exception handler: an InstallerError of *)
(* a component ends the program with exit status 1.                        *)
(***************************************************************************)
\* how a component backup can end: it returns with every file, it returns
\* after the warning about failed files (the directories only), it raises
BackupOutcomes(c) ==
  IF c = "moonraker" THEN {"ok", "raise"} ELSE {"ok", "partial", "raise"}

BackupFrame ==
  /\ UNCHANGED <<sessVars, runVars, chanVars, resetVars, copyVars, restoreVars, callVars, probeVars, flowVars>>
  /\ UNCHANGED xf

\* installer.ensure_ssh_access()
BackupStart ==
  /\ bk.pc = "called"
  /\ \E ok \in BOOLEAN :
       bk' = IF ok THEN [bk EXCEPT !.pc = "moonraker"]
             ELSE [bk EXCEPT !.pc = "exit", !.exit = Some(1)]
  /\ BackupFrame

\* the block of one component: backup_<c>(force=True, backup_dir=...) when
\* it is selected, then components_backed_up.append(...)
BackupComponent(c) ==
  /\ bk.pc = c
  /\ IF ~Selected(bk.args, c)
     THEN bk' = [bk EXCEPT !.pc = AfterComponent(c)]
     ELSE \E oc \in BackupOutcomes(c) :
            bk' = CASE oc = "ok" ->
                         [bk EXCEPT !.pc = AfterComponent(c),
                                    !.components_backed_up = @ \cup {c}]
                    [] oc = "partial" ->
                         [bk EXCEPT !.pc = AfterComponent(c),
                                    !.components_backed_up = @ \cup {c},
                                    !.partial = @ \cup {c}]
                    [] OTHER ->
                         [bk EXCEPT !.pc = "exit", !.failed = @ \cup {c},
                                    !.exit = Some(1)]
  /\ BackupFrame

BackupMoonraker == BackupComponent("moonraker")

BackupTimelapses == BackupComponent("timelapses")

BackupGcodes == BackupComponent("gcodes")

\* the summary and sys.exit
BackupFinish ==
  /\ bk.pc = "finish"
  /\ bk' = [bk EXCEPT !.pc = "exit",
                      !.exit = IF bk.components_backed_up # {} THEN Some(0) ELSE Some(1)]
  /\ BackupFrame

InitBackup ==
  /\ client = "none"
  /\ pc = "idle"
  /\ params = NoParams
  /\ buffers = [k \in Kinds |-> <<>>]
  /\ collected = [k \in Kinds |-> <<>>]
  /\ recvd = [k \in Kinds |-> <<>>]
  /\ success_seen = FALSE
  /\ result = NoResult
  /\ chanOut = <<>>
  /\ chanErr = <<>>
  /\ chanExit = None
  /\ chanBroken = FALSE
  /\ chanClosed = FALSE
  /\ chanEof = FALSE
  /\ emitted = [n |-> 0, ack |-> FALSE]
  /\ rphase = "Idle"
  /\ cycles = 0
  /\ readyAfter = 0
  /\ fs = NoFs /\ fs0 = NoFs /\ cp = NoCopy
  /\ rs = NoRestore
  /\ conn = NoConn
  /\ scall = NoCall
  /\ xf = NoXfer
  /\ moonraker_connectivity = ConnectivityStatus
  /\ probe = NoProbe
  /\ mon = NoMonitor
  /\ wf = NoFlow
  /\ \E args \in [Components -> BOOLEAN] :
       bk = [NoBackup EXCEPT !.pc = "called", !.args = args]

NextBackup ==
  \/ BackupStart
  \/ BackupMoonraker
  \/ BackupTimelapses
  \/ BackupGcodes
  \/ BackupFinish

SpecBackup == InitBackup /\ [][NextBackup]_vars

(***************************************************************************)
(* CombinedPostProc.py: main() and the thread that probes Moonraker.  The  *)
(* two share the global moonraker_connectivity without a lock; every write *)
(* of a field is a step of its own.                                        *)
(***************************************************************************)
ProbeFrame ==
  /\ UNCHANGED <<sessVars, runVars, chanVars, resetVars, copyVars, restoreVars, callVars>>
  /\ UNCHANGED bundleVars
  /\ UNCHANGED flowVars

\* is_alive(): the thread has been started and its target has not returned
is_alive(b) == b \in {"checking", "w_checked", "w_connected", "w_message"}

\* connectivity_thread = start_connectivity_check()
MainStart ==
  /\ probe.fg = "start"
  /\ probe' = [probe EXCEPT !.fg = "work",
                            !.bg = IF probe.enabled THEN "checking" ELSE "none"]
  /\ UNCHANGED moonraker_connectivity
  /\ ProbeFrame

\* the transformations of main() up to document.write()
MainWork ==
  /\ probe.fg = "work"
  /\ probe' = [probe EXCEPT !.fg = "wait"]
  /\ UNCHANGED moonraker_connectivity
  /\ ProbeFrame

\* wait_for_connectivity_check: no thread, or the loop ends because the
\* thread has ended, or because the deadline has passed
MainWait ==
  /\ probe.fg = "wait"
  /\ \/ /\ probe.bg = "none"
        /\ probe' = [probe EXCEPT !.fg = "decide"]
     \/ /\ probe.bg = "ended"
        /\ probe' = [probe EXCEPT !.fg = "alive_test"]
     \/ /\ is_alive(probe.bg)
        /\ probe' = [probe EXCEPT !.fg = "alive_test"]
  /\ UNCHANGED moonraker_connectivity
  /\ ProbeFrame

\* if thread.is_alive(): the foreground gives up
MainAliveTest ==
  /\ probe.fg = "alive_test"
  /\ probe' = IF is_alive(probe.bg)
              THEN [probe EXCEPT !.fg = "g_checked", !.gave_up = TRUE]
              ELSE [probe EXCEPT !.fg = "decide"]
  /\ UNCHANGED moonraker_connectivity
  /\ ProbeFrame

\* moonraker_connectivity.checked = True
MainGiveUpChecked ==
  /\ probe.fg = "g_checked"
  /\ moonraker_connectivity' = [moonraker_connectivity EXCEPT !.checked = TRUE]
  /\ probe' = [probe EXCEPT !.fg = "g_connected"]
  /\ ProbeFrame

\* moonraker_connectivity.connected = False
MainGiveUpConnected ==
  /\ probe.fg = "g_connected"
  /\ moonraker_connectivity' = [moonraker_connectivity EXCEPT !.connected = FALSE]
  /\ probe' = [probe EXCEPT !.fg = "g_message"]
  /\ ProbeFrame

\* moonraker_connectivity.message = "Connectivity check timed out after ..."
MainGiveUpMessage ==
  /\ probe.fg = "g_message"
  /\ moonraker_connectivity' = [moonraker_connectivity EXCEPT !.message = "timed out"]
  /\ probe' = [probe EXCEPT !.fg = "decide"]
  /\ ProbeFrame

\* if ENABLE_KLIPPER_ESTIMATOR: run_klipper_estimator reads
\* moonraker_connectivity.connected and acts on it
MainDecide ==
  /\ probe.fg = "decide"
  /\ probe' = [probe EXCEPT !.fg = "done",
                            !.acted = IF probe.enabled
                                      THEN Some(moonraker_connectivity.connected)
                                      ELSE None]
  /\ UNCHANGED moonraker_connectivity
  /\ ProbeFrame

\* check_moonraker_connectivity(): the ways it can end and what it returns
CheckOutcomes == {"connected", "bad_url", "timeout", "error"}

check_moonraker_connectivity(oc) ==
  [is_connected |-> oc = "connected", message |-> oc]

\* the thread: is_connected, message = check_moonraker_connectivity()
ThreadCheck ==
  /\ probe.bg = "checking"
  /\ \E oc \in CheckOutcomes :
       LET r == check_moonraker_connectivity(oc) IN
       probe' = [probe EXCEPT !.bg = "w_checked", !.found = r.is_connected,
                              !.message = r.message]
  /\ UNCHANGED moonraker_connectivity
  /\ ProbeFrame

\* the thread: moonraker_connectivity.checked = True
ThreadWriteChecked ==
  /\ probe.bg = "w_checked"
  /\ moonraker_connectivity' = [moonraker_connectivity EXCEPT !.checked = TRUE]
  /\ probe' = [probe EXCEPT !.bg = "w_connected"]
  /\ ProbeFrame

\* the thread: moonraker_connectivity.connected = is_connected
ThreadWriteConnected ==
  /\ probe.bg = "w_connected"
  /\ moonraker_connectivity' = [moonraker_connectivity EXCEPT !.connected = probe.found]
  /\ probe' = [probe EXCEPT !.bg = "w_message"]
  /\ ProbeFrame

\* the thread: moonraker_connectivity.message = message, and it ends
ThreadWriteMessage ==
  /\ probe.bg = "w_message"
  /\ moonraker_connectivity' = [moonraker_connectivity EXCEPT !.message = probe.message]
  /\ probe' = [probe EXCEPT !.bg = "ended"]
  /\ ProbeFrame

InitProbe ==
  /\ client = "none"
  /\ pc = "idle"
  /\ params = NoParams
  /\ buffers = [k \in Kinds |-> <<>>]
  /\ collected = [k \in Kinds |-> <<>>]
  /\ recvd = [k \in Kinds |-> <<>>]
  /\ success_seen = FALSE
  /\ result = NoResult
  /\ chanOut = <<>>
  /\ chanErr = <<>>
  /\ chanExit = None
  /\ chanBroken = FALSE
  /\ chanClosed = FALSE
  /\ chanEof = FALSE
  /\ emitted = [n |-> 0, ack |-> FALSE]
  /\ rphase = "Idle"
  /\ cycles = 0
  /\ readyAfter = 0
  /\ fs = NoFs /\ fs0 = NoFs /\ cp = NoCopy
  /\ rs = NoRestore
  /\ conn = NoConn
  /\ scall = NoCall
  /\ xf = NoXfer
  /\ bk = NoBackup
  /\ moonraker_connectivity = ConnectivityStatus
  /\ \E enabled \in BOOLEAN :
       probe = [NoProbe EXCEPT !.enabled = enabled, !.fg = "start"]
  /\ mon = NoMonitor
  /\ wf = NoFlow

NextProbe ==
  \/ MainStart
  \/ MainWork
  \/ MainWait
  \/ MainAliveTest
  \/ MainGiveUpChecked
  \/ MainGiveUpConnected
  \/ MainGiveUpMessage
  \/ MainDecide
  \/ ThreadCheck
  \/ ThreadWriteChecked
  \/ ThreadWriteConnected
  \/ ThreadWriteMessage

SpecProbe == InitProbe /\ [][NextProbe]_vars

(***************************************************************************)
(* PrinterInstaller._TransferMonitor, driven by the file loop of a backup  *)
(* or restore of a directory: start_file, the callbacks of sftp.get or     *)
(* sftp.put, then finish_file or abort_current_file, and complete() after  *)
(* the loop.  Sizes are bytes, the clock counts seconds.                   *)
(***************************************************************************)
UPDATE_INTERVAL == 10

Max2(a, b) == IF a >= b THEN a ELSE b
Min2(a, b) == IF a <= b THEN a ELSE b

RECURSIVE SumSizes(_)
SumSizes(q) == IF q = <<>> THEN 0 ELSE q[1] + SumSizes(Tail(q))

\* __init__ at time `now`
TransferMonitor(total_files, total_bytes, now) ==
  [NoMonitorObj EXCEPT !.total_files = total_files,
                       !.total_bytes = Max2(total_bytes, 0),
                       !.last_emit = now,
                       !.active = Max2(total_bytes, 0) > 0]

start_file(m, file_size) ==
  IF ~m.active THEN m
  ELSE [m EXCEPT !.current_file_size = Max2(file_size, 0),
                 !.current_transferred = 0]

\* percent = int((min(overall, total_bytes) / total_bytes) * 100)
Percent(overall, total_bytes) == (Min2(overall, total_bytes) * 100) \div total_bytes

\* mutant: a report is due whenever the interval has passed
should_emit_IntervalOnly(m, percent, overall, now) ==
  (now - m.last_emit) >= UPDATE_INTERVAL

\* the test that sets should_emit
should_emit(m, percent, overall, now) ==
  /\ (now - m.last_emit) >= UPDATE_INTERVAL
  /\ percent > m.last_percent
  /\ overall > m.last_overall

\* callback(transferred, total) at time `now`: the monitor after the call,
\* the percentage it computed (None when it returned before computing one)
\* and whether it logged a progress line
callback(m, transferred, now) ==
  IF ~m.active THEN [obj |-> m, percent |-> None, emit |-> FALSE]
  ELSE LET m1 == [m EXCEPT !.current_transferred = Max2(transferred, 0)]
           overall == m1.completed_bytes + m1.current_transferred
       IN IF m1.total_bytes <= 0
          THEN [obj |-> m1, percent |-> None, emit |-> FALSE]
          ELSE LET percent == Percent(overall, m1.total_bytes) IN
               IF percent >= 100
               THEN [obj |-> [m1 EXCEPT !.emitted_complete = TRUE,
                                        !.last_percent = percent,
                                        !.last_overall = overall,
                                        !.last_emit = now],
                     percent |-> Some(percent), emit |-> FALSE]
               ELSE IF should_emit(m1, percent, overall, now)
               THEN [obj |-> [m1 EXCEPT !.last_emit = now,
                                        !.last_percent = percent,
                                        !.last_overall = overall],
                     percent |-> Some(percent), emit |-> TRUE]
               ELSE [obj |-> m1, percent |-> Some(percent), emit |-> FALSE]

complete(m) ==
  IF ~m.active \/ m.emitted_complete THEN m
  ELSE [m EXCEPT !.last_overall = m.total_bytes,
                 !.last_percent = 100,
                 !.emitted_complete = TRUE]

finish_file(m) ==
  IF ~m.active THEN m
  ELSE LET m1 == [m EXCEPT !.completed_files = @ + 1,
                           !.completed_bytes = @ + m.current_file_size,
                           !.current_file_size = 0,
                           !.current_transferred = 0]
       IN IF m1.completed_bytes >= m1.total_bytes THEN complete(m1) ELSE m1

abort_current_file(m) ==
  IF ~m.active THEN m
  ELSE LET total == Max2(m.total_bytes - m.current_file_size, 0) IN
       [m EXCEPT !.total_bytes = total,
                 !.total_files = Max2(m.total_files - 1, 0),
                 !.current_file_size = 0,
                 !.current_transferred = 0,
                 !.last_overall = Min2(m.last_overall, m.completed_bytes),
                 !.active = IF total = 0 THEN FALSE ELSE m.active]

MonFrame ==
  /\ UNCHANGED <<sessVars, runVars, chanVars, resetVars, copyVars, restoreVars, callVars, bundleVars, probeVars>>
  /\ UNCHANGED wf

\* _create_transfer_monitor: no monitor for a plan without bytes
MonCreate ==
  /\ mon.pc = "called"
  /\ LET total_files == Len(mon.files)
         total_bytes == SumSizes(mon.files)
     IN IF total_files <= 0 \/ total_bytes <= 0
        THEN mon' = [mon EXCEPT !.pc = "unmonitored"]
        ELSE mon' = [mon EXCEPT !.pc = "between",
                                !.obj = TransferMonitor(total_files, total_bytes, mon.now)]
  /\ MonFrame

\* time.monotonic() advances
MonTick ==
  /\ mon.pc \in {"called", "between", "file"}
  /\ mon.now + ClockStep <= MaxClock
  /\ mon' = [mon EXCEPT !.now = @ + ClockStep]
  /\ MonFrame

\* the loop takes the next planned file: monitor.start_file(name, size)
MonStartFile ==
  /\ mon.pc = "between"
  /\ mon.idx < Len(mon.files)
  /\ mon' = [mon EXCEPT !.pc = "file",
                        !.obj = start_file(mon.obj, mon.files[mon.idx + 1])]
  /\ MonFrame

\* sftp.get / sftp.put calls monitor.callback with the bytes of the current
\* file moved so far; the callback is passed only for a file with a size,
\* and the file on the other side may have grown since it was measured
MonCallback ==
  /\ mon.pc = "file"
  /\ mon.files[mon.idx + 1] > 0
  /\ \E transferred \in 0..(mon.files[mon.idx + 1] + 1) :
       /\ transferred >= mon.obj.current_transferred
       /\ LET r == callback(mon.obj, transferred, mon.now) IN
          mon' = [mon EXCEPT !.obj = r.obj,
                             !.percent = IF r.percent = None THEN @ ELSE r.percent,
                             !.reports = IF r.emit
                                         THEN Append(@, [percent |-> The(r.percent),
                                                         at |-> mon.now])
                                         ELSE @]
  /\ MonFrame

\* the transfer of the file returned: monitor.finish_file()
MonFinishFile ==
  /\ mon.pc = "file"
  /\ mon' = [mon EXCEPT !.pc = "between", !.idx = @ + 1,
                        !.obj = finish_file(mon.obj)]
  /\ MonFrame

\* the transfer of the file raised IOError: monitor.abort_current_file()
MonAbortFile ==
  /\ mon.pc = "file"
  /\ mon' = [mon EXCEPT !.pc = "between", !.idx = @ + 1,
                        !.obj = abort_current_file(mon.obj)]
  /\ MonFrame

\* after the loop: monitor.complete()
MonComplete ==
  /\ mon.pc = "between"
  /\ mon.idx = Len(mon.files)
  /\ mon' = [mon EXCEPT !.pc = "ended", !.obj = complete(mon.obj)]
  /\ MonFrame

\* the sizes of the planned files
PlannedFiles ==
  UNION { [1..n -> 0..MaxSize] : n \in 1..MaxFiles }

InitMonitor ==
  /\ client = "none"
  /\ pc = "idle"
  /\ params = NoParams
  /\ buffers = [k \in Kinds |-> <<>>]
  /\ collected = [k \in Kinds |-> <<>>]
  /\ recvd = [k \in Kinds |-> <<>>]
  /\ success_seen = FALSE
  /\ result = NoResult
  /\ chanOut = <<>>
  /\ chanErr = <<>>
  /\ chanExit = None
  /\ chanBroken = FALSE
  /\ chanClosed = FALSE
  /\ chanEof = FALSE
  /\ emitted = [n |-> 0, ack |-> FALSE]
  /\ rphase = "Idle"
  /\ cycles = 0
  /\ readyAfter = 0
  /\ fs = NoFs /\ fs0 = NoFs /\ cp = NoCopy
  /\ rs = NoRestore
  /\ conn = NoConn
  /\ scall = NoCall
  /\ xf = NoXfer
  /\ bk = NoBackup
  /\ moonraker_connectivity = ConnectivityStatus
  /\ probe = NoProbe
  /\ wf = NoFlow
  /\ \E files \in PlannedFiles :
       mon = [NoMonitor EXCEPT !.pc = "called", !.files = files]

NextMonitor ==
  \/ MonCreate
  \/ MonTick
  \/ MonStartFile
  \/ MonCallback
  \/ MonFinishFile
  \/ MonAbortFile
  \/ MonComplete

SpecMonitor == InitMonitor /\ [][NextMonitor]_vars

(***************************************************************************)
(* main() with --reset or --reset-only: the backups of the preserved       *)
(* components, reset_device(), and for --reset install() with its steps    *)
(* and restores.  A call is a step whose outcome the device chooses.       *)
(***************************************************************************)
Steps == {"bootstrap", "k2", "repo"}

\* mutant: install() restores the preserved components before its steps
FlowOrder_RestoreFirst ==
  << <<"backup", "moonraker">>, <<"backup", "timelapses">>, <<"backup", "gcodes">>,
     <<"reset", "">>, <<"poll", "">>, <<"ensure", "">>, <<"install", "">>,
     <<"restore", "moonraker">>, <<"restore", "timelapses">>, <<"restore", "gcodes">>,
     <<"step", "bootstrap">>, <<"step", "k2">>, <<"step", "repo">>,
     <<"close", "">>, <<"post", "">>, <<"exit", "">> >>

\* the order of the statements of main() and, from "install" to "close", of
\* install()
FlowOrder ==
  << <<"backup", "moonraker">>, <<"backup", "timelapses">>, <<"backup", "gcodes">>,
     <<"reset", "">>, <<"poll", "">>, <<"ensure", "">>, <<"install", "">>,
     <<"step", "bootstrap">>, <<"step", "k2">>, <<"step", "repo">>,
     <<"restore", "moonraker">>, <<"restore", "timelapses">>, <<"restore", "gcodes">>,
     <<"close", "">>, <<"post", "">>, <<"exit", "">> >>

FlowAfter(p) ==
  FlowOrder[(CHOOSE i \in 1..Len(FlowOrder) : FlowOrder[i] = p) + 1]

\* the program ends with this status; the session is left as it is
FlowExit(w, code) == [w EXCEPT !.pc = <<"exit", "">>, !.exit = Some(code)]

FlowFrame ==
  /\ UNCHANGED <<sessVars, runVars, chanVars, resetVars, copyVars, restoreVars, callVars, bundleVars, probeVars>>
  /\ UNCHANGED mon

\* if args.preserve_<c>: installer.backup_<c>(use_temp=True); with --reset
\* and --restore-backup the recorded backup is taken from the directory given
\* and nothing is backed up.  An InstallerError of the backup leaves main().
FlowBackup ==
  /\ \E c \in Components :
       /\ wf.pc = <<"backup", c>>
       /\ IF ~wf.args.preserve[c] \/ (~wf.args.reset_only /\ wf.args.restore_backup)
          THEN wf' = [wf EXCEPT !.pc = FlowAfter(wf.pc)]
          ELSE \E oc \in BackupOutcomes(c) :
                 wf' = CASE oc = "ok" ->
                              [wf EXCEPT !.pc = FlowAfter(wf.pc), !.session = "open",
                                         !.log = Append(@, <<"backup", c>>)]
                         [] oc = "partial" ->
                              [wf EXCEPT !.pc = FlowAfter(wf.pc), !.session = "open",
                                         !.log = Append(@, <<"backup", c>>),
                                         !.lost = @ \cup {c}]
                         [] OTHER -> FlowExit(wf, 1)
  /\ FlowFrame

\* reset_device() up to the grace wait: ensure_ssh_access(), then the wipe
\* command; either may raise
FlowReset ==
  /\ wf.pc = <<"reset", "">>
  /\ \E oc \in {"no_access", "acknowledged", "command_failed"} :
       wf' = CASE oc = "no_access" -> FlowExit(wf, 1)
               [] oc = "acknowledged" ->
                    [wf EXCEPT !.pc = FlowAfter(wf.pc), !.session = "open",
                               !.log = Append(@, <<"reset", "">>)]
               [] OTHER -> FlowExit([wf EXCEPT !.log = Append(@, <<"reset", "">>)], 1)
  /\ FlowFrame

\* the polling loop of reset_device() breaks; --reset-only then closes the
\* session and exits with status 0
FlowPoll ==
  /\ wf.pc = <<"poll", "">>
  /\ LET w == [wf EXCEPT !.log = Append(@, <<"online", "">>), !.session = "open"] IN
     wf' = IF wf.args.reset_only
           THEN FlowExit([w EXCEPT !.session = "none"], 0)
           ELSE [w EXCEPT !.pc = FlowAfter(wf.pc)]
  /\ FlowFrame

\* installer.ensure_ssh_access() after reset_device()
FlowEnsure ==
  /\ wf.pc = <<"ensure", "">>
  /\ \E ok \in BOOLEAN :
       wf' = IF ok THEN [wf EXCEPT !.pc = FlowAfter(wf.pc)] ELSE FlowExit(wf, 1)
  /\ FlowFrame

\* an InstallerError inside install(): _handle_failure calls sys.exit(1) and
\* the finally clause runs
FlowFail(w) == [w EXCEPT !.pc = <<"close", "">>, !.failing = TRUE]

\* install() begins: step 1, ensure_ssh_access()
FlowInstall ==
  /\ wf.pc = <<"install", "">>
  /\ \E ok \in BOOLEAN :
       LET w == [wf EXCEPT !.log = Append(@, <<"install", "">>)] IN
       wf' = IF ok THEN [w EXCEPT !.pc = FlowAfter(wf.pc)] ELSE FlowFail(w)
  /\ FlowFrame

\* if run_<s>: the step is run
FlowStep ==
  /\ \E s \in Steps :
       /\ wf.pc = <<"step", s>>
       /\ IF s \notin wf.args.steps
          THEN wf' = [wf EXCEPT !.pc = FlowAfter(wf.pc)]
          ELSE \E ok \in BOOLEAN :
                 wf' = IF ok
                       THEN [wf EXCEPT !.pc = FlowAfter(wf.pc),
                                       !.log = @ \o << <<"step", s>>, <<"done", s>> >>]
                       ELSE FlowFail([wf EXCEPT !.log = Append(@, <<"step", s>>)])
  /\ FlowFrame

\* if self.preserve_<c>: try: self.restore_<c>() except InstallerError: log;
\* anything else that is raised leaves install() through the finally clause
FlowRestore ==
  /\ \E c \in Components :
       /\ wf.pc = <<"restore", c>>
       /\ IF ~wf.args.preserve[c]
          THEN wf' = [wf EXCEPT !.pc = FlowAfter(wf.pc)]
          ELSE \E oc \in {"ok", "installer_error", "other"} :
                 LET w == [wf EXCEPT !.log = Append(@, <<"restore", c>>)] IN
                 wf' = IF oc = "other" THEN FlowFail(w)
                       ELSE [w EXCEPT !.pc = FlowAfter(wf.pc)]
  /\ FlowFrame

\* finally: self.executor.close()
FlowClose ==
  /\ wf.pc = <<"close", "">>
  /\ LET w == [wf EXCEPT !.session = close(@), !.log = Append(@, <<"close", "">>)] IN
     wf' = IF wf.failing THEN FlowExit(w, 1) ELSE [w EXCEPT !.pc = FlowAfter(wf.pc)]
  /\ FlowFrame

\* if args.restore_backup: installer.restore_moonraker_stats(force=True)
FlowPost ==
  /\ wf.pc = <<"post", "">>
  /\ IF ~wf.args.restore_backup
     THEN wf' = FlowExit(wf, 0)
     ELSE \E ok \in BOOLEAN :
            LET w == [wf EXCEPT !.session = "open",
                                !.log = Append(@, <<"restore", "moonraker">>)] IN
            wf' = FlowExit(w, IF ok THEN 0 ELSE 1)
  /\ FlowFrame

InitFlow ==
  /\ client = "none"
  /\ pc = "idle"
  /\ params = NoParams
  /\ buffers = [k \in Kinds |-> <<>>]
  /\ collected = [k \in Kinds |-> <<>>]
  /\ recvd = [k \in Kinds |-> <<>>]
  /\ success_seen = FALSE
  /\ result = NoResult
  /\ chanOut = <<>>
  /\ chanErr = <<>>
  /\ chanExit = None
  /\ chanBroken = FALSE
  /\ chanClosed = FALSE
  /\ chanEof = FALSE
  /\ emitted = [n |-> 0, ack |-> FALSE]
  /\ rphase = "Idle"
  /\ cycles = 0
  /\ readyAfter = 0
  /\ fs = NoFs /\ fs0 = NoFs /\ cp = NoCopy
  /\ rs = NoRestore
  /\ conn = NoConn
  /\ scall = NoCall
  /\ xf = NoXfer
  /\ bk = NoBackup
  /\ moonraker_connectivity = ConnectivityStatus
  /\ probe = NoProbe
  /\ mon = NoMonitor
  /\ \E reset_only \in BOOLEAN, restore_backup \in BOOLEAN,
        preserve \in [Components -> BOOLEAN], steps \in SUBSET Steps :
       \* with no --run-* flag every step is selected
       /\ steps # {}
       /\ reset_only => ~restore_backup
       /\ wf = [NoFlow EXCEPT !.pc = FlowOrder[1],
                              !.args = [reset_only |-> reset_only,
                                        restore_backup |-> restore_backup,
                                        preserve |-> preserve, steps |-> steps]]

NextFlow ==
  \/ FlowBackup
  \/ FlowReset
  \/ FlowPoll
  \/ FlowEnsure
  \/ FlowInstall
  \/ FlowStep
  \/ FlowRestore
  \/ FlowClose
  \/ FlowPost

SpecFlow == InitFlow /\ [][NextFlow]_vars

(***************************************************************************)
(* Claims about RemoteExecutor.run (checked under SpecRun).                *)
(***************************************************************************)
\* the call noticed the dropped transport: in the read loop, or when it read
\* the exit status after the loop
DropNoticed == pc = "done" /\ chanBroken /\ result.how \in {"transport_error", "completed"}

\* C1: a run with expect_disconnect=false that completes without transport
\* error or timeout raises CommandExecutionError when the remote exit status
\* is not zero, and returns a result with exit_status 0 when it is zero.
C1_ExitStatusDecides ==
  (pc = "done" /\ ~params.expect_disconnect /\ result.how = "completed" /\ ~chanBroken)
  => /\ chanExit # Some(0)
          => (result.kind = "raised" /\ result.exc = "CommandExecutionError")
     /\ chanExit = Some(0)
          => (result.kind = "returned" /\ result.exit_status = Some(0))

C1_Witness ==
  /\ pc = "done" /\ ~params.expect_disconnect /\ result.how = "completed" /\ ~chanBroken
  /\ chanExit = Some(1) /\ result.kind = "raised"
  /\ Len(collected["stdout"]) > 0

Has(log, ev) == \E i \in 1..Len(log) : log[i] = ev

StrictlyIncreasing(q) == \A i \in 1..(Len(q) - 1) : q[i] < q[i + 1]

CopyDone == cp.pc = "done"

\* the latest attempt was rejected by the verification block
VerificationFailed ==
  /\ cp.tries > 0
  /\ cp.res.kind # "returned"
  /\ cp.last_error \in {"missing", "size_mismatch", "empty"}

C5_SizeRoundTrip ==
  /\ (CopyDone /\ cp.res.kind = "returned") => (fs.dst # None /\ fs.dst = fs.src)
  /\ fs.src = Some(0) => cp.last_error \notin {"empty", "size_mismatch", "missing"}
  /\ (fs.src = Some(0) /\ CopyDone /\ cp.res.kind = "raised" /\ cp.tries > 0)
       => cp.res.cause \in {"copy", "chmod", "replace"}

C5_Witness ==
  /\ CopyDone /\ cp.res.kind = "returned"
  /\ fs.src = Some(0) /\ fs.dst = Some(0) /\ fs0.dst = None

\* what C6 says of a call whose copy primitive raised on every attempt,
\* for the exception class `exc`
RetriesExhausted(exc) ==
  /\ cp.tries = cp.max_retries
  /\ Len(cp.sleeps) = cp.max_retries - 1
  /\ StrictlyIncreasing(cp.sleeps)
  /\ cp.res.kind = "raised"
  /\ cp.res.exc = exc
  /\ cp.res.cause = cp.last_error /\ cp.res.cause = "copy"

\* C6 as stated: the copy is attempted max_retries times with strictly
\* increasing delays between attempts, none after the last, and then
\* FileTransferError naming the last cause is raised.
C6_RaisesFileTransferError ==
  (CopyDone /\ cp.tries > 0 /\ cp.allRaised) => RetriesExhausted("FileTransferError")

\* C6 amended: the same, and the exception raised is IOError
\* ("... failed after N attempts. Last error: <cause>").
C6_RaisesIOError ==
  (CopyDone /\ cp.tries > 0 /\ cp.allRaised) => RetriesExhausted("IOError")

C6_Witness ==
  /\ CopyDone /\ cp.allRaised /\ cp.tries = 3 /\ Len(cp.sleeps) = 2
  /\ cp.fn = "atomic_copy"

\* nothing but the destination's parent directory changed, no attempt made
NoAttemptMade == cp.tries = 0 /\ cp.sleeps = <<>> /\ fs.dst = fs0.dst /\ fs.tmp = fs0.tmp

ViaTemporary ==
  /\ ~Has(cp.alog, "write_dst")
  /\ Has(cp.alog, "write_tmp")
  /\ Has(cp.alog, "replace") => (fs.dst # None /\ fs.dst = fs.src)
  /\ VerificationFailed
       => /\ ~Has(cp.alog, "replace")
          /\ \A a \in TmpNames : fs.tmp[a] = None
          /\ cp.pc = "loop" \/ cp.tries = cp.max_retries

\* C8 as stated: every attempt of the copy primitive writes to a temporary
\* sibling, never to the destination, and moves it over the destination
\* only after its verification passed; a failed verification deletes the
\* temporary file and the attempt is retried.
C8_NeverWritesDestination == cp.tries > 0 => ViaTemporary

\* C8 amended: this holds of atomic_copy (the retry happening while attempts
\* remain); copy_file has no temporary file: it writes to the destination
\* itself and deletes it when the attempt fails.
C8_AtomicCopyViaTemporary ==
  /\ (cp.tries > 0 /\ cp.fn = "atomic_copy") => ViaTemporary
  /\ (cp.tries > 0 /\ cp.fn = "copy_file")
       => /\ Has(cp.alog, "write_dst")
          /\ ~Has(cp.alog, "write_tmp") /\ ~Has(cp.alog, "replace")
          /\ VerificationFailed => fs.dst = None

C8_Witness ==
  /\ cp.fn = "atomic_copy" /\ CopyDone /\ cp.res.kind = "returned"
  /\ cp.last_error = "size_mismatch" /\ cp.tries = 2
  /\ Has(cp.alog, "replace")

(***************************************************************************)
(* Claims about reset_device (checked under SpecReset).                    *)
(***************************************************************************)
\* the reset command ended after the device sent its acknowledgement and the
\* connection went away without an exit status (the transport raised, or
\* the channel closed: -1), and the command did not time out first
AckThenDrop ==
  /\ params.command = "wipe"
  /\ pc = "done"
  /\ rphase # "ResetIssued"
  /\ emitted.ack
  /\ \/ chanBroken /\ chanExit = None
     \/ chanExit = Some(-1)
  /\ result.how # "timeout"

\* C3: a device that acknowledges the reset and then drops the connection
\* without an exit status makes the reset command succeed, and reset_device
\* goes on to the grace wait and the polling loop.
C3_AckThenDropIsSuccess ==
  AckThenDrop => (result.kind = "returned" /\ rphase \in {"Rebooting", "Polling"})

C3_Witness ==
  /\ AckThenDrop
  /\ chanBroken
  /\ rphase = "Polling"

\* C9: the polling loop is left only after an echo that returned with exit 0
\* and the marker in its stdout, and for a device ready after K cycles this
\* happens after exactly K cycles without the break.
C9_OnlineAfterK ==
  rphase = "Online"
  => /\ cycles = readyAfter
     /\ params.command = "echo online"
     /\ result.kind = "returned"
     /\ result.exit_status = Some(0)
     /\ Contains(result.stdout, T_online)

C9_Witness == rphase = "Online" /\ cycles >= 1 /\ client = "active"

(***************************************************************************)
(* Claims about restoring a bundle (checked under SpecRestore).            *)
(***************************************************************************)
\* a bundle directory that lacks a selected component and holds another
PartialBundle ==
  /\ rs.bundle.dir
  /\ \E c \in Components : Selected(rs.args, c) /\ ~InBundle(rs.bundle, c)
  /\ \E c \in Components : Selected(rs.args, c) /\ InBundle(rs.bundle, c)

\* C10: restoring a bundle that lacks one of the expected components
\* restores every component that is present and reports the missing one,
\* without aborting (the device answering every command of the restore).
C10_MissingComponentIsSkipped ==
  (rs.pc = "exit" /\ PartialBundle /\ ~rs.fault)
  => /\ rs.exit # Some(2)
     /\ \A c \in Components :
          Selected(rs.args, c) =>
            IF InBundle(rs.bundle, c) THEN c \in rs.restored ELSE c \in rs.skipped

(***************************************************************************)
(* Claims about the session (checked under SpecSession).                   *)
(***************************************************************************)
\* C11: close() never raises, with or without a session and even when
\* closing the underlying connection fails; with no session it changes
\* nothing, and after any call no session is held.
C11_CloseNeverRaises ==
  scall.op = "close" => (~scall.raised /\ client = "none")

\* C12: no connection that the executor held stays open once the executor
\* holds another one or none: connect() closes the held client before it
\* opens a new one, whatever calls of connect(force), close and run went
\* before.
C12_PreviousSessionClosed == ~conn.stale

C12_Witness ==
  /\ scall.op = "connect" /\ scall.force /\ scall.before = "active"
  /\ ~scall.raised /\ client = "active"
  /\ pc = "done"

\* C15: a connect() that fails, on rejected credentials or on the transport,
\* raises the connection error and leaves nothing open: no session is held,
\* the session held before is closed, and the client made for the attempt is
\* not left with an open transport.
C15_FailedConnectLeavesNothing ==
  (scall.op = "connect" /\ scall.raised /\ scall.cause \in {"auth", "transport"})
  => /\ scall.exc = "SSHConnectionError"
     /\ client = "none"
     /\ ~conn.stale
     /\ ~conn.dangling

\* C13: when the timeout of a command elapses the channel is closed and
\* run raises CommandExecutionError naming the command and the timeout,
\* also when the call expected a disconnect or saw a success token; no
\* call that timed out returns a result.
C13_TimeoutAlwaysRaises ==
  /\ (pc = "done" /\ result.how = "timeout")
       => /\ params.timeout
          /\ result.kind = "raised"
          /\ result.exc = "CommandExecutionError"
          /\ result.names = <<params.command, params.timeout>>
          /\ chanClosed
  /\ result.kind = "returned" => result.how # "timeout"

C13_Witness ==
  /\ pc = "done" /\ result.how = "timeout" /\ result.kind = "raised"
  /\ params.expect_disconnect /\ success_seen

\* the call ended without an exit status to read: the transport dropped, or
\* the channel never reported one
ExitUnavailable == pc = "done" /\ result.kind # "none" /\ (chanBroken \/ chanExit = None)

\* C14: a result returned with exit_status None comes from a call made with
\* expect_disconnect=true, and a call with expect_disconnect=false whose exit
\* status is unavailable raises.
C14_AbsentStatusOnlyWhenExpected ==
  /\ (result.kind = "returned" /\ result.exit_status = None) => params.expect_disconnect
  /\ (ExitUnavailable /\ ~params.expect_disconnect) => result.kind = "raised"

C14_Witness ==
  /\ ExitUnavailable /\ ~params.expect_disconnect
  /\ result.how = "completed" /\ chanBroken /\ chanExit = Some(0)
  /\ result.kind = "raised"

\* C16: a transport error in the read loop of a call with
\* expect_disconnect=false raises CommandExecutionError and closes the
\* session: no client is held, so the next connect() opens a new connection.
C16_PoisonedSessionClosed ==
  (pc = "done" /\ ~params.expect_disconnect /\ result.how = "transport_error")
  => /\ result.kind = "raised"
     /\ result.exc = "CommandExecutionError"
     /\ chanClosed
     /\ client = "none"
     /\ ~transport_is_active(client)
     /\ connect(client, FALSE, "ok").opened

C16_Witness ==
  /\ pc = "done" /\ ~params.expect_disconnect /\ result.how = "transport_error"
  /\ Len(collected["stdout"]) > 0
  /\ client = "none"

(***************************************************************************)
(* Claims about a component transfer (checked under SpecTransfer).         *)
(***************************************************************************)
\* the function got through its loop: no step other than a file's transfer
\* ended it
LoopCompleted ==
  /\ xf.pc = "done"
  /\ xf.infos # {}
  /\ ~xf.fatal
  /\ xf.res.exc \notin {"CommandExecutionError", "SSHConnectionError"}

\* C17 as stated: every file of the component is attempted whatever files
\* failed, and after the last one the function raises an error that names
\* every file that failed.
C17_RaisesNamingFailedFiles ==
  LoopCompleted
  => /\ xf.attempted = xf.infos
     /\ xf.failed # <<>> => (xf.res.kind = "raised" /\ xf.res.names = xf.failed)

\* C18: restore_moonraker_stats puts every file after the stop command has
\* completed and before the start command is issued.
C18_WritesWhileStopped ==
  xf.fn = "restore_moonraker_stats"
  => /\ \A k \in 1..Len(xf.wrote) : xf.wrote[k] = "stopped"
     /\ xf.svc \in {"up", "unknown"} => xf.wrote = <<>>
     /\ xf.pc = "loop" => xf.svc = "stopped"

C18_Witness ==
  /\ xf.fn = "restore_moonraker_stats" /\ xf.pc = "done"
  /\ xf.svc = "started" /\ Len(xf.wrote) = 2 /\ xf.res.kind = "returned"

(***************************************************************************)
(* Claims about failures that are not retried (checked under SpecReset).   *)
(***************************************************************************)
\* the device rejects the credentials of a connect() made by the polling
\* loop of reset_device: the only connect outcome that leaves the client of
\* the attempt open
AuthRejectedWhilePolling ==
  rphase = "Polling" /\ ~conn.dangling /\ conn'.dangling

\* C19: a rejected-credentials failure of connect() is not attempted again
\* and surfaces to the caller, also when it happens during the reconnection
\* polling of reset_device: the polling ends in failure.
C19_AuthFailureSurfaces ==
  [][AuthRejectedWhilePolling => rphase' = "Failed"]_vars

(***************************************************************************)
(* Claims about the standalone backup (checked under SpecBackup).          *)
(***************************************************************************)
\* C20: when one selected component of a standalone backup fails, the
\* remaining selected components are still processed: at the end every
\* selected component has been backed up or has failed.
C20_ComponentFailureIsolated ==
  (bk.pc = "exit" /\ bk.failed # {})
  => \A c \in Components :
       Selected(bk.args, c) => c \in bk.components_backed_up \cup bk.failed

(***************************************************************************)
(* Claims about a component that is missing (checked under SpecTransfer).  *)
(***************************************************************************)
\* a backup of a component of which nothing is on the device has ended, and
\* not because the session failed
AbsentComponentBackedUp ==
  /\ xf.pc = "done"
  /\ xf.fn \in {"backup_moonraker_stats", "backup_timelapse_files"}
  /\ xf.remote = {}
  /\ ~xf.fatal
  /\ xf.res.exc # "SSHConnectionError"
  /\ ~(xf.res.exc = "FileTransferError" /\ xf.res.names = <<>>)

\* C21: the backup of a component that does not exist on the device is
\* skipped and returns normally, for the database pair as for a directory.
C21_AbsentComponentSkipped ==
  AbsentComponentBackedUp => xf.res.kind = "returned"

(***************************************************************************)
(* Claims about connect(force) (checked under SpecSession).                *)
(***************************************************************************)
\* the latest direct call was connect() on a held client with a live transport
ConnectOnHealthy == scall.op = "connect" /\ scall.before = "active"

\* C22: connect(force=False) on a connection that is open and whose
\* transport is active does nothing: the held connection is neither closed
\* nor replaced and nothing is raised.  With force=True, or with an inactive
\* or absent transport, the held client is closed and a new connection is
\* attempted: it is opened or the call raises.
C22_ConnectReusesHealthy ==
  scall.op = "connect"
  => IF ~scall.force /\ scall.before = "active"
     THEN ~scall.opened /\ ~scall.closed /\ ~scall.raised
     ELSE /\ scall.opened \/ scall.raised
          /\ scall.before # "none" => scall.closed

C22_Witness == ConnectOnHealthy /\ ~scall.force /\ client = "active" /\ ~scall.opened

(***************************************************************************)
(* Claims about the lines of a command's output (checked under SpecStream).*)
(***************************************************************************)
\* the positions of the newlines of a text, and the k-th of them
NLPos(t) == {i \in 1..Len(t) : t[i] = NL}

NthNL(t, k) == CHOOSE i \in NLPos(t) : Cardinality({j \in NLPos(t) : j <= i}) = k

\* the newline-terminated lines of a text in the order of the text, each
\* without the carriage returns at its end
CompleteLines(t) ==
  [k \in 1..Cardinality(NLPos(t)) |->
     RStripCR(SubSeq(t, (IF k = 1 THEN 0 ELSE NthNL(t, k - 1)) + 1, NthNL(t, k) - 1))]

\* the text after the last newline
Residual(t) ==
  IF NLPos(t) = {} THEN t
  ELSE SubSeq(t, NthNL(t, Cardinality(NLPos(t))) + 1, Len(t))

\* the loop of run() ended by its break and the call came to its end
CompletedNormally == pc = "done" /\ result.how = "completed"

\* the line holds the token when letter case is ignored on both sides
HoldsIgnoringCase(line, token) == Contains(LowerSeq(line), LowerSeq(token))

\* C23: whenever a recorded line contains a configured success token
\* ignoring letter case, whatever the case of the token as configured, the
\* success flag is set.
C23_TokenCaseInsensitive ==
  \A kind \in Kinds :
    \A i \in 1..Len(collected[kind]) :
      (\E token \in params.success_tokens :
         HoldsIgnoringCase(collected[kind][i], token))
      => success_seen

\* C28: on each stream the recorded lines are the complete lines of the text
\* received, in the order received and each once, however the text was cut
\* into chunks; the only other recorded line is the partial last line added
\* when the loop has ended.
C28_LinesInOrderReceived ==
  pc \in {"top", "rd_out", "rd_err", "chk", "fin", "done"}
  => \A kind \in Kinds :
       LET lines == CompleteLines(recvd[kind])
           n == Len(lines)
       IN /\ Len(collected[kind]) \in {n, n + 1}
          /\ SubSeq(collected[kind], 1, n) = lines
          /\ Len(collected[kind]) = n + 1 => pc = "done"
          /\ pc # "done" => buffers[kind] = Residual(recvd[kind])

C28_Witness ==
  /\ pc = "chk"
  /\ collected["stdout"] = << <<"k">>, <<"o">> >>
  /\ recvd["stdout"] = <<"k", NL, "o", NL>>
  /\ Len(collected["stderr"]) = 0 /\ recvd["stderr"] = <<"e">>

\* C29 as stated: on normal completion every character received appears in
\* the recorded lines: joined by newlines they give back the text received,
\* up to the newline that ends it.
C29_EveryByteRecorded ==
  CompletedNormally
  => \A kind \in Kinds :
       \/ Join(collected[kind]) = recvd[kind]
       \/ Join(collected[kind]) \o <<NL>> = recvd[kind]

\* C29 amended: the loop ends normally only when an exit status is there and
\* no data is waiting on either stream; the text after the last newline is
\* then recorded as a last line and nothing stays buffered, so the recorded
\* lines hold every character received except the line ends: the newlines
\* and the carriage returns that rstrip removes from the end of each line.
C29_PartialLineFlushed ==
  CompletedNormally
  => /\ chanExit # None /\ chanOut = <<>> /\ chanErr = <<>>
     /\ \A kind \in Kinds :
          /\ buffers[kind] = <<>>
          /\ collected[kind] =
               CompleteLines(IF Residual(recvd[kind]) # <<>>
                             THEN recvd[kind] \o <<NL>> ELSE recvd[kind])

C29_Witness ==
  /\ CompletedNormally
  /\ recvd["stdout"] = <<"O", "K", CR, NL, "o">>
  /\ collected["stdout"] = << T_OK, <<"o">> >>

(***************************************************************************)
(* Claims about the reset command (checked under SpecReset).               *)
(***************************************************************************)
\* a call of run() with the reset command begins in this step
ResetCommandIssued == params' = P_reset /\ pc' = "connect" /\ pc # "connect"

\* C24: reset_device issues the reset command at most once, and a failure of
\* it, or of the connection check before it, leaves reset_device: the grace
\* wait and the polling loop are entered only after the command returned.
C24_ResetIssuedOnce ==
  [][ /\ ResetCommandIssued => (rphase = "Ensure" /\ rphase' = "ResetIssued")
      /\ rphase' \in {"Idle", "Ensure"} => rphase \in {"Idle", rphase'}
      /\ rphase = "Failed" => rphase' = "Failed"
      /\ (rphase' = "Rebooting" /\ rphase # "Rebooting")
         => (rphase = "ResetIssued" /\ result.kind = "returned")
      /\ (rphase' = "Polling" /\ rphase \notin {"Polling", "Probe"})
         => rphase = "Rebooting"
      /\ (rphase = "ResetIssued" /\ pc = "done" /\ result.kind = "raised")
         => rphase' \in {"ResetIssued", "Failed"} ]_vars

C24_Witness ==
  /\ rphase = "Failed" /\ params = P_reset
  /\ result.kind = "raised" /\ result.exc = "CommandExecutionError"

(***************************************************************************)
(* Claims about the polling loop (checked under SpecReset).                *)
(***************************************************************************)
\* C27: the polling phase of reset_device has no failure exit: a closed
\* port, a failed forced reconnect and an echo that failed or came without
\* the marker each lead to another polling cycle, with the session closed
\* first after an error; the loop is left only when the device is online.
C27_PollingHasNoFailureExit ==
  [][ /\ rphase \in {"Polling", "Probe"} => rphase' \in {"Polling", "Probe", "Online"}
      /\ (rphase = "Probe" /\ rphase' = "Polling")
         => /\ cycles' = cycles + 1
            /\ result.kind = "raised" => client' = "none"
      /\ (rphase = "Polling" /\ rphase' = "Polling" /\ cycles' # cycles)
         => /\ cycles' = cycles + 1
            /\ client' \in {"none", client}
      /\ rphase' = "Online" => (rphase \in {"Probe", "Online"} /\ BackOnline(result)) ]_vars

C27_Witness ==
  /\ rphase = "Polling" /\ cycles >= 1
  /\ params = P_echo /\ result.kind = "raised" /\ client = "none"

(***************************************************************************)
(* Claims about a missing source (checked under SpecCopy).                 *)
(***************************************************************************)
\* C25: when the source does not exist the copy raises FileNotFoundError
\* before anything else: no directory is made, the free space is not asked
\* for, no attempt or retry happens and the file system is as it was.
C25_MissingSourceFailsFast ==
  (fs0.src = None /\ cp.pc = "done")
  => /\ cp.res.kind = "raised" /\ cp.res.exc = "FileNotFoundError"
     /\ fs = fs0
     /\ ~cp.statvfs
     /\ cp.tries = 0 /\ cp.attempt = 0 /\ cp.sleeps = <<>>

C25_Witness ==
  /\ fs0.src = None /\ cp.pc = "done" /\ cp.fn = "atomic_copy"
  /\ ~fs0.parent /\ ~fs.parent /\ cp.res.exc = "FileNotFoundError"

(***************************************************************************)
(* Claims about input_data (checked under SpecRun).                        *)
(***************************************************************************)
\* C30: when writing the input fails, run() raises CommandExecutionError
\* without entering the read loop, with expect_disconnect as without it;
\* shutdown_write() is called when the input was written and when it failed.
C30_InputFailureIsHard ==
  /\ (pc = "done" /\ result.how = "input_failed")
     => /\ result.kind = "raised" /\ result.exc = "CommandExecutionError"
        /\ chanClosed /\ chanEof
        /\ emitted.n = 0 /\ \A kind \in Kinds : recvd[kind] = <<>>
  /\ (params.input_data /\ InLoop) => chanEof
  /\ chanEof => params.input_data

C30_Witness ==
  /\ pc = "done" /\ result.how = "input_failed"
  /\ params.expect_disconnect /\ chanEof /\ client = "none"

(***************************************************************************)
(* Claims about the connectivity probe (checked under SpecProbe).          *)
(***************************************************************************)
\* C26: when the foreground has given up waiting for the probe, the status
\* that run_klipper_estimator reads is "not connected": a probe thread that
\* ends later cannot make the foreground act on "connected".
C26_GiveUpMeansFailed ==
  (probe.gave_up /\ probe.acted # None) => The(probe.acted) = FALSE

(***************************************************************************)
(* Temporary files of atomic_copy.                                         *)
(***************************************************************************)
\* an attempt of atomic_copy failed after shutil.copy2 had put something at
\* its temporary path, and the call has ended
TemporaryWasWritten ==
  /\ cp.fn = "atomic_copy"
  /\ cp.pc = "done"
  /\ Has(cp.alog, "write_tmp")
  /\ Has(cp.alog, "unlink_tmp")

\* C31: the attempts of atomic_copy are numbered one after the other, never
\* more than max_retries of them, and between two attempts and after the call
\* has returned or raised no temporary sibling "<dst>.tmp.<n>" of any attempt
\* exists
C31_NoTemporaryRemains ==
  cp.fn = "atomic_copy" =>
    /\ \A a \in TmpNames : fs.tmp[a] = None
    /\ cp.tries <= cp.max_retries
    /\ cp.attempt = (IF cp.pc = "done" /\ cp.tries > 0 THEN cp.tries - 1 ELSE cp.tries)

\* atomic_copy raised after three attempts, the last of which left a partial
\* temporary file that the handler removed
C31_Witness ==
  /\ TemporaryWasWritten
  /\ cp.res.kind = "raised"
  /\ cp.tries = 3
  /\ \A a \in TmpNames : fs.tmp[a] = None

(***************************************************************************)
(* The Moonraker service around restore_moonraker_stats.                   *)
(***************************************************************************)
\* C33 as stated: when restore_moonraker_stats has ended, by return or by
\* raise, after its stop command was executed, its start command has been
\* executed too, so that the service is never left stopped.
C33_StoppedServiceIsStarted ==
  (xf.fn = "restore_moonraker_stats" /\ xf.pc = "done") => xf.svc # "stopped"

(***************************************************************************)
(* The previous destination of a failed atomic_copy.                       *)
(***************************************************************************)
\* C34 as stated: when atomic_copy raises after its last attempt, a
\* destination file that existed when it was called is still there with the
\* size it had.
C34_FailedCopyKeepsDestination ==
  (cp.fn = "atomic_copy" /\ CopyDone /\ cp.res.kind = "raised"
     /\ cp.tries = cp.max_retries /\ fs0.dst # None)
  => fs.dst = fs0.dst

(***************************************************************************)
(* run() with expect_disconnect=True (checked under SpecRun).              *)
(***************************************************************************)
\* the call that ended was made with expect_disconnect=True
ExpectedDisconnectEnded == pc = "done" /\ params.expect_disconnect

\* the raises the claim lists: the command completed with a status other
\* than 0 and no token was seen, the timeout, the failed write of the input,
\* the channel that could not be opened
ListedRaise(r) ==
  \/ /\ r.how = "completed"
     /\ r.exit_status \notin {None, Some(0)}
     /\ ~r.success_tokens_seen
  \/ r.how = "timeout"
  \/ r.how = "input_failed"
  \/ r.how \in {"channel_open_failed", "transport_unavailable"}

\* C38 as stated: with expect_disconnect=True every result returned has no
\* exit status, and run() raises only for a completed command with non-zero
\* status and no token, a timeout, a failed input write or a channel that
\* could not be opened.
C38_RaisesOnlyAsListed ==
  ExpectedDisconnectEnded =>
    /\ result.kind = "returned" => result.exit_status = None
    /\ result.kind = "raised" => ListedRaise(result)

\* C38 amended: the same, and run() also raises when the connect() it starts
\* with fails, before any channel is asked for.
C38_RaisesAsListedOrOnConnect ==
  ExpectedDisconnectEnded =>
    /\ result.kind = "returned" => result.exit_status = None
    /\ result.kind = "raised" => (ListedRaise(result) \/ result.how = "connect_failed")
    /\ result.how = "connect_failed" => result.exc = "SSHConnectionError"

\* the command ran to its end on a connection that stayed up, the device
\* reported status 0, and the result returned has no exit status
C38_Witness ==
  /\ ExpectedDisconnectEnded
  /\ result.kind = "returned" /\ result.how = "completed"
  /\ chanExit = Some(0) /\ ~chanBroken
  /\ result.exit_status = None

(***************************************************************************)
(* What closes the session (checked under SpecSession).                    *)
(***************************************************************************)
\* this step ends a run() by the raise of the timeout or of the exit status
RunFailsSoftly ==
  /\ pc # "done" /\ pc' = "done"
  /\ result'.kind = "raised"
  /\ result'.how \in {"timeout", "completed"}

\* this step ends a run() in one of the handlers that call self.close()
RunClosesSession ==
  /\ pc # "done" /\ pc' = "done"
  /\ result'.how \in {"transport_error", "input_failed", "channel_open_failed"}

\* this step is a direct call of close() or of connect(force=True)
ExplicitClose ==
  /\ pc' = pc
  /\ \/ scall'.op = "close"
     \/ scall'.op = "connect" /\ scall'.force

\* C39: a run() that raises for the timeout or for a non-zero exit status
\* leaves the session as it was, and the connect() of the next run() on a
\* healthy session keeps it and opens nothing; a healthy session is given up
\* only by a transport error of the read loop, a failed input write, a
\* channel that could not be opened, close() or connect(force=True).
C39_SessionClosedOnlyAsListed ==
  [][/\ RunFailsSoftly => (client' = client /\ conn' = conn)
     /\ (pc = "connect" /\ client = "active")
          => (client' = "active" /\ conn' = conn /\ pc' = "open")
     /\ (client = "active" /\ client' = "none")
          => (RunClosesSession \/ ExplicitClose)
     /\ (scall'.op = "connect" /\ scall'.before = "active" /\ scall'.closed)
          => scall'.force]_vars

\* a run() has raised for its timeout and the session it used is still open
C39_Witness ==
  /\ pc = "done"
  /\ result.kind = "raised" /\ result.how = "timeout"
  /\ client = "active"
  /\ ~chanBroken

(***************************************************************************)
(* Termination of the polling loop (checked under SpecResetFair).          *)
(***************************************************************************)
\* C37: a device that, after some number of failed polling turns, keeps its
\* port open, accepts the credentials and answers the echo with the marker
\* makes reset_device leave the polling loop: whenever the loop has been
\* entered, Online is reached.
C37_PollingReachesOnline == (rphase = "Polling") ~> (rphase = "Online")

\* the loop was left after as many failed turns as the bound allows
C37_Witness ==
  /\ rphase = "Online"
  /\ readyAfter = MaxK /\ cycles = readyAfter
  /\ pc = "done" /\ result.kind = "returned"

(***************************************************************************)
(* Progress reports of a monitored transfer (checked under SpecMonitor).   *)
(***************************************************************************)
\* successive progress lines are at least UPDATE_INTERVAL apart, the first
\* at least that long after the monitor was made, and all are below 100%
ReportsSpaced ==
  /\ \A i \in 1..Len(mon.reports) : mon.reports[i].percent < 100
  /\ \A i \in 1..Len(mon.reports) : mon.reports[i].at >= UPDATE_INTERVAL
  /\ \A i \in 1..(Len(mon.reports) - 1) :
       mon.reports[i + 1].at - mon.reports[i].at >= UPDATE_INTERVAL

\* the monitored transfer has reached 100%: every byte still planned has
\* been transferred and the monitor has noted the completion
ReachedComplete ==
  /\ mon.obj.active
  /\ mon.obj.emitted_complete
  /\ mon.obj.last_percent = 100

\* C32 as stated: below 100% progress lines are at most one per interval of
\* 10 seconds, and when the transfer reaches 100% one more line, for 100%,
\* is logged.
C32_ReportAtCompletion ==
  /\ ReportsSpaced
  /\ (mon.pc = "ended" /\ ReachedComplete)
       => (mon.reports # <<>> /\ mon.reports[Len(mon.reports)].percent = 100)

\* C40: whatever the loop did with the planned files (started, called back,
\* finished, aborted), the completed bytes are at most the current total,
\* every percentage computed or kept is within 0..100 (-1 before the first),
\* and the percentages of the progress lines logged are strictly increasing.
C40_MonitorInvariants ==
  mon.pc \in {"between", "file", "ended"} =>
    /\ mon.obj.completed_bytes <= mon.obj.total_bytes
    /\ mon.obj.completed_files <= mon.obj.total_files
    /\ mon.percent # None => The(mon.percent) \in 0..100
    /\ mon.obj.last_percent \in -1..100
    /\ \A i \in 1..Len(mon.reports) : mon.reports[i].percent \in 0..100
    /\ \A i \in 1..(Len(mon.reports) - 1) :
         mon.reports[i].percent < mon.reports[i + 1].percent

\* two progress lines were logged around a file that was aborted, and a file
\* of the plan was finished
C40_Witness ==
  /\ mon.pc = "ended"
  /\ Len(mon.reports) >= 2
  /\ mon.obj.total_bytes < SumSizes(mon.files)
  /\ mon.obj.completed_bytes > 0

(***************************************************************************)
(* The reset workflow (checked under SpecFlow).                            *)
(***************************************************************************)
\* C35 as stated: the reset command is issued only when the backup of every
\* preserved component transferred every one of its files.
C35_ResetOnlyAfterCompleteBackup ==
  Has(wf.log, <<"reset", "">>) => wf.lost = {}

\* the events of one kind in the log
EventsOf(kind) == {i \in 1..Len(wf.log) : wf.log[i][1] = kind}

\* C36: in the --reset workflow every backup has returned before the reset
\* command is issued; a step of install() starts only after the polling loop
\* has reached Online; a restore starts only after every selected step has
\* completed; and when install() has ended, on whatever path, the session
\* has been closed.
C36_PhasesInOrder ==
  ~wf.args.reset_only =>
    /\ \A i \in EventsOf("backup"), j \in EventsOf("reset") : i < j
    /\ \A j \in EventsOf("step") : \E i \in EventsOf("online") : i < j
    /\ \A j \in EventsOf("restore") : \A s \in wf.args.steps :
         \E i \in EventsOf("done") : i < j /\ wf.log[i][2] = s
    /\ \A j \in EventsOf("close") : \A i \in EventsOf("step") : i < j
    /\ (Has(wf.log, <<"install", "">>) /\ wf.pc[1] \in {"post", "exit"})
         => Has(wf.log, <<"close", "">>)
    /\ wf.pc[1] = "post" => wf.session = "none"

\* a --reset run with a preserved component went through backup, reset,
\* polling, two selected steps, the restore and the close
C36_Witness ==
  /\ ~wf.args.reset_only /\ ~wf.args.restore_backup
  /\ wf.args.steps = {"bootstrap", "repo"}
  /\ Has(wf.log, <<"backup", "timelapses">>)
  /\ Has(wf.log, <<"restore", "timelapses">>)
  /\ wf.pc[1] = "exit" /\ wf.exit = Some(0)
  /\ wf.session = "none"

====
